---- MODULE Spec2Model ----
(***************************************************************************)
(* Model of the multithreaded grep driver (src/grep.c): the work queue,    *)
(* the worker pool, the recursive output lock, the per-file scan loop      *)
(* (grep, grepbuf, prtext, prpending, fillbuf) and the exit status.        *)
(*                                                                         *)
(* Bytes are one-character strings:                                        *)
(*   "n" end-of-line byte (eolbyte, '\n')    "z" NUL byte                  *)
(*   "m" a byte the pattern matches          "x" any other text byte       *)
(*   "e" a byte that is an encoding error    "u" uninitialised memory      *)
(* The compiled pattern selects exactly the lines that contain "m".        *)
(* Pointers into ctx->buffer are offsets from its base; NULL is -1.        *)
(***************************************************************************)
EXTENDS Integers, Sequences, FiniteSets, TLC

\* ------------------------------------------------------------------ bounds
\* getpagesize () of the modelled machine.
PageSize == 2
\* INITIAL_BUFSIZE (32768 in the source) scaled down with the page size.
InitialBufsize == 2
\* sizeof (uword), scaled down.
UwordSize == 1
\* Largest number of worker threads (-M N).
MaxThreads == 2
\* Stand-in for INTMAX_MAX, the default of max_count: more than any input has lines.
UnlimitedCount == 50

\* ------------------------------------------------------------------- state
VARIABLES
  opt,            \* the globals main sets from the command line
  args,           \* the command-line file arguments (argv + optind ...)
  pc,             \* each thread's position in its code
  ret,            \* each thread's continuation after suppressible_error
  argi,           \* main: index of the argument being searched (files)
  joini,          \* main: i of the pthread_join loop
  mstatus,        \* main: status
  queue,          \* workqueue.head ... workqueue.tail, as a sequence
  num_files,      \* workqueue.num_files
  producer_done,  \* workqueue.producer_done
  qlock,          \* owner of workqueue.lock, or NoThread
  consumer_cond,  \* threads blocked in pthread_cond_wait (&consumer_cond)
  producer_cond,  \* threads blocked in pthread_cond_wait (&producer_cond)
  out_owner,      \* owner of output_lock, or NoThread
  out_depth,      \* nesting depth of the recursive output_lock
  wf,             \* worker_thread_func: wf (index into args), 0 is NULL
  status,         \* worker_thread_func: status
  ctx,            \* worker_thread_func: ctx (struct grepctx)
  loc,            \* locals of grep, grepbuf, prtext and prpending
  used,           \* prtext: static bool used
  errseen,        \* errseen
  stdout,         \* what has been written to stdout, in order
  stderr,         \* what has been written to stderr, in order
  exit_code,      \* the process's exit status, NoExit while it runs
  exiting,        \* per thread: the status of the exit call it is in, or NoExit
  closed,         \* per argument: the threads that closed its descriptor
  scanned,        \* per argument: grep has returned for it
  selected,       \* per argument: the lines prtext has selected so far
  counts,         \* per argument: what grep returned for it, -1 before it returns
  failed,         \* the operations that failed: <<argument, operation>>
  enq_log,        \* the items linked into the queue, in order
  deq_log         \* the items unlinked from the queue and their workers, in order

\* ---------------------------------------------------------------- constants
\* eolbyte is '\n', and '\0' with -z
eolbyte == IF opt.null_data THEN "z" ELSE "n"
NULL == -1
NoThread == -1
NoExit == -1
MainThread == 0
EXIT_SUCCESS == 0
EXIT_FAILURE == 1
EXIT_TROUBLE == 2
STDIN_FILENO == 0
SEP_CHAR_SELECTED == ":"
SEP_CHAR_REJECTED == "-"

\* ------------------------------------------------------------ byte helpers
Max(a, b) == IF a > b THEN a ELSE b
Min(a, b) == IF a < b THEN a ELSE b

\* *(buffer + o)
At(b, o) == b[o + 1]

\* buffer[o .. o + n - 1] as a sequence
Slice(b, o, n) == [i \in 1..n |-> b[o + i]]

\* memmove/read: store the bytes s at offset o of b
Store(b, o, s) == [i \in 1..Len(b) |-> IF i > o /\ i <= o + Len(s) THEN s[i - o] ELSE b[i]]

ALIGN_TO(val, alignment) ==
  IF val % alignment = 0 THEN val ELSE val + (alignment - (val % alignment))

\* a search that finds the last c in [from, from + n) instead of the first
memchrLast(b, from, c, n) ==
  LET hits == {o \in from..(from + n - 1) : At(b, o) = c}
  IN IF hits = {} THEN NULL ELSE CHOOSE o \in hits : \A o2 \in hits : o >= o2

\* memchr (b + from, c, n): offset of the first c in [from, from + n), or NULL
memchr(b, from, c, n) ==
  LET hits == {o \in from..(from + n - 1) : At(b, o) = c}
  IN IF hits = {} THEN NULL ELSE CHOOSE o \in hits : \A o2 \in hits : o <= o2

\* memrchr (b + from, c, n): offset of the last c in [from, from + n), or NULL
memrchr(b, from, c, n) ==
  LET hits == {o \in from..(from + n - 1) : At(b, o) = c}
  IN IF hits = {} THEN NULL ELSE CHOOSE o \in hits : \A o2 \in hits : o >= o2

all_zeros(s) == \A i \in 1..Len(s) : s[i] = "z"

\* a test that sees a NUL only in the first byte at buf
buf_has_nulls_at_start(b, from, size) == size > 0 /\ At(b, from) = "z"

\* buf_has_nulls (buf, size): a NUL among the size bytes at buf
buf_has_nulls(b, from, size) == \E o \in from..(from + size - 1) : At(b, o) = "z"

\* buf_has_encoding_errors (buf, size) in a multibyte locale
buf_has_encoding_errors(b, from, size) == \E o \in from..(from + size - 1) : At(b, o) = "e"

\* zap_nuls (p, lim, eol): every NUL of [p, lim) becomes eol, unless eol is NUL
zap_nuls(b, p, lim, eol) ==
  IF eol = "z" THEN b
  ELSE [i \in 1..Len(b) |-> IF i > p /\ i <= lim /\ b[i] = "z" THEN eol ELSE b[i]]

\* *match_size of a search without start hint: the matchers of the program
\* ("line") report the whole line [s, e), its terminator included; a matcher
\* that reports matches of length zero ("empty") reports 0
MatchSize(s, e) == IF opt.matcher = "empty" THEN 0 ELSE e - s

\* execute (compiled_pattern, ctx, p, size, &match_size, NULL) on the complete
\* lines of [p, p + size): offset and length (terminator included) of the
\* first line that contains a matched byte, off = -1 ((size_t) -1) if none.
RECURSIVE ExecFrom(_, _, _, _)
ExecFrom(b, p, s, lim) ==
  IF s >= lim THEN [off |-> -1, size |-> 0]
  ELSE LET nl == memchr(b, s, eolbyte, lim - s)
           e == IF nl = NULL THEN lim ELSE nl + 1
       IN IF \E o \in s..(e - 1) : At(b, o) = "m"
          THEN [off |-> s - p, size |-> MatchSize(s, e)]
          ELSE ExecFrom(b, p, e, lim)

execute(b, p, size) == ExecFrom(b, p, p, p + size)

vars == <<opt, args, pc, ret, argi, joini, mstatus, queue, num_files,
          producer_done, qlock, consumer_cond, producer_cond, out_owner,
          out_depth, wf, status, ctx, loc, used, errseen, stdout, stderr,
          exit_code, exiting, closed, scanned, selected, counts, failed, enq_log,
          deq_log>>

cfgvars == <<opt, args>>
mainvars == <<argi, joini, mstatus>>
queuevars == <<queue, num_files, producer_done, qlock, consumer_cond, producer_cond>>
lockvars == <<out_owner, out_depth>>
workvars == <<wf, status, ctx, loc>>
ghostvars == <<closed, scanned, selected, counts, failed, enq_log, deq_log>>

Workers == 1..MaxThreads
Threads == {MainThread} \cup Workers

\* ------------------------------------------------------- command line, main
\* an exit_failure that -q leaves at EXIT_TROUBLE
ExitFailureKept(raw) == EXIT_TROUBLE

\* main: exit_failure = EXIT_TROUBLE, and -q sets exit_failure = 0
ExitFailure(raw) == IF raw.exit_on_match THEN 0 ELSE EXIT_TROUBLE

\* main, after getopt: -q overrides -l and -L, which override -c; the
\* context lengths default to default_context (-1); the queue bound is half
\* the descriptor limit.  raw holds the option values as given.
MainOptions(raw) ==
  LET list_files == IF raw.exit_on_match THEN "none" ELSE raw.list_files
      done == raw.exit_on_match \/ list_files # "none"
      count_matches == raw.count_matches /\ ~done
  IN [out_invert |-> raw.out_invert,
      max_count |-> raw.max_count,
      out_before |-> raw.out_before,
      out_after |-> raw.out_after,
      binary_files |-> raw.binary_files,
      count_matches |-> count_matches,
      list_files |-> list_files,
      exit_on_match |-> raw.exit_on_match,
      exit_failure |-> ExitFailure(raw),
      done_on_match |-> done,
      out_quiet |-> count_matches \/ done,
      suppress_errors |-> raw.suppress_errors,
      out_line |-> raw.out_line,
      out_byte |-> raw.out_byte,
      null_data |-> raw.null_data,
      matcher |-> raw.matcher,
      stdout_room |-> raw.stdout_room,
      num_threads |-> raw.num_threads,
      rlim_cur |-> raw.rlim_cur,
      max_queued_files |-> raw.rlim_cur \div 2]

\* skip_empty_lines: the pattern does not match the empty line
skip_empty_lines == ~opt.out_invert

\* out_file: more than one file argument (neither -h nor -H given)
out_file == Len(args) > 1

\* struct grepctx after memset (&ctx, 0, sizeof (ctx))
ZeroCtx ==
  [out_quiet |-> FALSE, totalcc |-> 0, lastnl |-> 0, lastout |-> NULL,
   outleft |-> 0, pending |-> 0, done_on_match |-> FALSE,
   encoding_error_output |-> FALSE, buffer |-> <<>>, org |-> <<>>,
   bufalloc |-> 0, bufdesc |-> 0, bufbeg |-> 0, buflim |-> 0, bufoffset |-> 0,
   after_last_match |-> 0, skip_nuls |-> FALSE, seek_data_failed |-> FALSE,
   totalnl |-> 0, fpos |-> 0]

\* the locals of grep, grepbuf, prtext and prpending before their first use
ZeroLoc ==
  [nlines |-> 0, residue |-> 0, save |-> 0, beg |-> 0, lim |-> 0,
   nlines_first_null |-> -1, nul_zapper |-> "z", firsttime |-> TRUE,
   done_on_match_0 |-> FALSE, out_quiet_0 |-> FALSE,
   gb_p |-> 0, gb_endp |-> 0, gb_lim |-> 0, outleft0 |-> 0, gb_ret |-> "",
   pt_beg |-> 0, pt_lim |-> 0, pt_p |-> 0, pt_n |-> 0,
   pp_lim |-> 0, pp_ret |-> "", fb_ret |-> "", readbuf |-> 0, count |-> 0]

InitWith(raw, a) ==
  /\ opt = MainOptions(raw)
  /\ args = a
  /\ pc = [t \in Threads |-> IF t = MainThread THEN "main" ELSE "unborn"]
  /\ ret = [t \in Threads |-> ""]
  /\ argi = 1
  /\ joini = 1
  /\ mstatus = 1
  /\ queue = <<>>
  /\ num_files = 0
  /\ producer_done = FALSE
  /\ qlock = NoThread
  /\ consumer_cond = {}
  /\ producer_cond = {}
  /\ out_owner = NoThread
  /\ out_depth = 0
  /\ wf = [w \in Workers |-> 0]
  /\ status = [w \in Workers |-> TRUE]
  /\ ctx = [w \in Workers |-> ZeroCtx]
  /\ loc = [w \in Workers |-> ZeroLoc]
  /\ used = FALSE
  /\ errseen = FALSE
  /\ stdout = <<>>
  /\ stderr = <<>>
  /\ exit_code = NoExit
  /\ exiting = [t \in Threads |-> NoExit]
  /\ closed = [i \in 1..Len(a) |-> <<>>]
  /\ scanned = [i \in 1..Len(a) |-> FALSE]
  /\ selected = [i \in 1..Len(a) |-> 0]
  /\ counts = [i \in 1..Len(a) |-> -1]
  /\ failed = {}
  /\ enq_log = <<>>
  /\ deq_log = <<>>

Running == exit_code = NoExit

\* exit (status) called by thread t: the call lasts until the process ends
ExitCall(t, st) == exiting' = [exiting EXCEPT ![t] = st]

\* thread t is inside a call of exit
InExit(t) == exiting[t] # NoExit

\* ------------------------------------------------------------- output lock
\* a lock_output that does not exclude the other threads
LockOutputNotExclusive(t) == TRUE

\* a lock_output on a mutex that is not recursive
CanLockOutputOnce(t) == out_owner = NoThread

\* lock_output: output_lock is a recursive mutex
CanLockOutput(t) == out_owner = NoThread \/ out_owner = t

\* an unlock_output that leaves the mutex with its owner
OwnerKept == out_owner

\* unlock_output
UnlockedOwner == IF out_depth = 1 THEN NoThread ELSE out_owner

\* a suppressible_error that leaves errseen alone when -s is given
SuppressedErrorForgotten(t, r) ==
  IF opt.suppress_errors
  THEN /\ pc' = [pc EXCEPT ![t] = r]
       /\ UNCHANGED <<ret, errseen>>
  ELSE /\ pc' = [pc EXCEPT ![t] = "ts_error"]
       /\ ret' = [ret EXCEPT ![t] = r]
       /\ UNCHANGED errseen

\* a suppressible_error after which the thread gives up its remaining work
SuppressibleErrorAbandons(t, r) ==
  LET r2 == IF t = MainThread THEN "finish_workqueue" ELSE "worker_count"
  IN IF opt.suppress_errors
     THEN /\ errseen' = TRUE
          /\ pc' = [pc EXCEPT ![t] = r2]
          /\ UNCHANGED ret
     ELSE /\ pc' = [pc EXCEPT ![t] = "ts_error"]
          /\ ret' = [ret EXCEPT ![t] = r2]
          /\ UNCHANGED errseen

\* suppressible_error (mesg, errnum) called by thread t, which continues at r
SuppressibleError(t, r) ==
  IF opt.suppress_errors
  THEN /\ errseen' = TRUE
       /\ pc' = [pc EXCEPT ![t] = r]
       /\ UNCHANGED ret
  ELSE /\ pc' = [pc EXCEPT ![t] = "ts_error"]
       /\ ret' = [ret EXCEPT ![t] = r]
       /\ UNCHANGED errseen

\* ts_error (0, ...): lock_output (); error () starts the diagnostic
TsErrorLock(t) ==
  /\ Running
  /\ pc[t] = "ts_error"
  /\ CanLockOutput(t)
  /\ out_owner' = t
  /\ out_depth' = out_depth + 1
  /\ stderr' = Append(stderr, [th |-> t, part |-> "head"])
  /\ pc' = [pc EXCEPT ![t] = "ts_error_msg"]
  /\ UNCHANGED <<cfgvars, mainvars, queuevars, workvars, ghostvars, ret,
                 used, errseen, stdout, exit_code, exiting>>

\* error () writes the message and the newline; called with EXIT_TROUBLE
\* (the write error of prline) it then calls exit, with output_lock held
TsErrorWrite(t) ==
  /\ Running
  /\ pc[t] = "ts_error_msg"
  /\ ~InExit(t)
  /\ stderr' = Append(stderr, [th |-> t, part |-> "tail"])
  /\ IF ret[t] = "exit"
     THEN /\ ExitCall(t, EXIT_TROUBLE)
          /\ UNCHANGED pc
     ELSE /\ pc' = [pc EXCEPT ![t] = "ts_error_unlock"]
          /\ UNCHANGED exiting
  /\ UNCHANGED exit_code
  /\ UNCHANGED <<cfgvars, mainvars, queuevars, lockvars, workvars,
                 ghostvars, ret, used, errseen, stdout>>

\* unlock_output (); then suppressible_error sets errseen and returns
TsErrorUnlock(t) ==
  /\ Running
  /\ pc[t] = "ts_error_unlock"
  /\ out_owner' = UnlockedOwner
  /\ out_depth' = out_depth - 1
  /\ errseen' = TRUE
  /\ pc' = [pc EXCEPT ![t] = ret[t]]
  /\ UNCHANGED <<cfgvars, mainvars, queuevars, workvars, ghostvars, ret,
                 used, stdout, stderr, exit_code, exiting>>

\* --------------------------------------------------------------------- main
\* main: max_count == 0 returns EXIT_FAILURE; otherwise the worker threads
\* are created and the file arguments are searched in turn.
MainStart ==
  /\ Running
  /\ pc[MainThread] = "main"
  /\ IF opt.max_count = 0
     THEN /\ exit_code' = EXIT_FAILURE
          /\ ExitCall(MainThread, EXIT_FAILURE)
          /\ pc' = [pc EXCEPT ![MainThread] = "returned"]
     ELSE /\ pc' = [t \in Threads |->
                      IF t = MainThread THEN "search_command_line_arg"
                      ELSE IF t <= opt.num_threads THEN "worker_thread_func"
                      ELSE pc[t]]
          /\ UNCHANGED <<exit_code, exiting>>
  /\ UNCHANGED <<cfgvars, mainvars, queuevars, lockvars, workvars, ghostvars,
                 ret, used, errseen, stdout, stderr>>

\* search_command_line_arg (*files++), search_file and search_desc up to the
\* call of enqueue_workfile: "-" is standard input; a failed open is a
\* suppressible error; an input that is also the output is diagnosed and
\* closed; anything else is enqueued.
SearchArg ==
  /\ Running
  /\ pc[MainThread] = "search_command_line_arg"
  /\ argi <= Len(args)
  /\ LET f == args[argi]
     IN IF f.fd # STDIN_FILENO /\ ~f.openable
        THEN /\ SuppressibleError(MainThread, "next_arg")
             /\ failed' = failed \cup {<<argi, "open">>}
             /\ UNCHANGED closed
        ELSE IF /\ ~opt.out_quiet
                /\ opt.list_files = "none"
                /\ 1 < opt.max_count
                /\ f.is_output
        THEN /\ closed' = [closed EXCEPT ![argi] =
                            IF f.fd # STDIN_FILENO THEN Append(@, MainThread) ELSE @]
             /\ failed' = failed \cup {<<argi, "output">>}
             /\ IF opt.suppress_errors
                THEN /\ errseen' = TRUE
                     /\ pc' = [pc EXCEPT ![MainThread] = "next_arg"]
                     /\ UNCHANGED ret
                ELSE /\ pc' = [pc EXCEPT ![MainThread] = "ts_error"]
                     /\ ret' = [ret EXCEPT ![MainThread] = "next_arg"]
                     /\ UNCHANGED errseen
        ELSE /\ pc' = [pc EXCEPT ![MainThread] = "enqueue_workfile"]
             /\ UNCHANGED <<ret, errseen, closed, failed>>
  /\ UNCHANGED <<cfgvars, mainvars, queuevars, lockvars, workvars, scanned,
                 selected, counts, enq_log, deq_log, used, stdout, stderr,
                 exit_code, exiting>>

\* while (*files != NULL): the next argument, or finish_workqueue
NextArg ==
  /\ Running
  /\ pc[MainThread] = "next_arg"
  /\ argi' = argi + 1
  /\ pc' = [pc EXCEPT ![MainThread] =
              IF argi < Len(args) THEN "search_command_line_arg"
              ELSE "finish_workqueue"]
  /\ UNCHANGED <<cfgvars, joini, mstatus, queuevars, lockvars, workvars,
                 ghostvars, ret, used, errseen, stdout, stderr, exit_code, exiting>>

\* ------------------------------------------------------------- work queue
\* pthread_mutex_lock (&workqueue.lock) in enqueue_workfile, dequeue_workfile
\* and finish_workqueue, and on return from pthread_cond_wait
QueueLock(t) ==
  /\ Running
  /\ \/ /\ pc[t] = "enqueue_workfile"
        /\ pc' = [pc EXCEPT ![t] = "enqueue_locked"]
     \/ /\ pc[t] = "dequeue_workfile"
        /\ pc' = [pc EXCEPT ![t] = "dequeue_locked"]
     \/ /\ pc[t] = "finish_workqueue"
        /\ pc' = [pc EXCEPT ![t] = "finish_locked"]
     \/ /\ pc[t] = "enqueue_wait"
        /\ t \notin producer_cond
        /\ pc' = [pc EXCEPT ![t] = "enqueue_locked"]
     \/ /\ pc[t] = "dequeue_wait"
        /\ t \notin consumer_cond
        /\ pc' = [pc EXCEPT ![t] = "dequeue_locked"]
  /\ qlock = NoThread
  /\ qlock' = t
  /\ UNCHANGED <<cfgvars, mainvars, queue, num_files, producer_done,
                 consumer_cond, producer_cond, lockvars, workvars, ghostvars,
                 ret, used, errseen, stdout, stderr, exit_code, exiting>>

\* pthread_cond_signal (cond): one waiting thread, if any, is unblocked
Signalled(cond) ==
  IF cond = {} THEN {cond} ELSE {cond \ {t} : t \in cond}

\* pthread_cond_broadcast (cond): every waiting thread is unblocked
\* (BroadcastAsSignal: pthread_cond_signal in its place)
BroadcastAsSignal(cond) == Signalled(cond)

Broadcast(cond) == {{}}

\* a full test that lets one item too many in
QueueFullOffByOne == num_files > opt.max_queued_files

\* enqueue_workfile: while (workqueue.num_files >= max_queued_files)
QueueFull == num_files >= opt.max_queued_files

\* an item linked before workqueue.head
LinkHead(q, item) == <<item>> \o q

\* enqueue_workfile: the item is linked after workqueue.tail
LinkTail(q, item) == Append(q, item)

\* a wait loop that does not look at producer_done
DequeueWaitsWhileEmpty == num_files = 0

\* dequeue_workfile: while (!workqueue.num_files && !workqueue.producer_done)
DequeueMustWait == num_files = 0 /\ ~producer_done

\* dequeue_workfile: if (!workqueue.num_files && workqueue.producer_done)
DequeueNothing == num_files = 0 /\ producer_done

\* a dequeue that leaves workqueue.head where it is
HeadKept(q) == q

\* dequeue_workfile: workqueue.head = workqueue.head->next
Unlink(q) == Tail(q)

\* enqueue_workfile, with the lock held: wait for room, or link the item at
\* the tail, signal consumer_cond and unlock
Enqueue ==
  /\ Running
  /\ pc[MainThread] = "enqueue_locked"
  /\ qlock = MainThread
  /\ IF QueueFull
     THEN /\ producer_cond' = producer_cond \cup {MainThread}
          /\ qlock' = NoThread
          /\ pc' = [pc EXCEPT ![MainThread] = "enqueue_wait"]
          /\ UNCHANGED <<queue, num_files, consumer_cond, enq_log>>
     ELSE /\ queue' = LinkTail(queue, argi)
          /\ enq_log' = Append(enq_log, argi)
          /\ num_files' = num_files + 1
          /\ consumer_cond' \in Signalled(consumer_cond)
          /\ qlock' = NoThread
          /\ pc' = [pc EXCEPT ![MainThread] = "next_arg"]
          /\ UNCHANGED producer_cond
  /\ UNCHANGED <<cfgvars, mainvars, producer_done, lockvars, workvars,
                 closed, scanned, selected, counts, failed, deq_log, ret, used,
                 errseen, stdout, stderr,
                 exit_code, exiting>>

\* dequeue_workfile, with the lock held: wait while the queue is empty and
\* the producer is not done; NULL when empty and done; else unlink the head,
\* signal producer_cond; unlock
Dequeue(w) ==
  /\ Running
  /\ pc[w] = "dequeue_locked"
  /\ qlock = w
  /\ IF DequeueMustWait
     THEN /\ consumer_cond' = consumer_cond \cup {w}
          /\ qlock' = NoThread
          /\ pc' = [pc EXCEPT ![w] = "dequeue_wait"]
          /\ UNCHANGED <<queue, num_files, producer_cond, wf, deq_log>>
     ELSE IF DequeueNothing
     THEN /\ wf' = [wf EXCEPT ![w] = 0]
          /\ qlock' = NoThread
          /\ pc' = [pc EXCEPT ![w] = "worker_returned"]
          /\ UNCHANGED <<queue, num_files, producer_cond, consumer_cond, deq_log>>
     ELSE /\ wf' = [wf EXCEPT ![w] = Head(queue)]
          /\ deq_log' = Append(deq_log, [item |-> Head(queue), w |-> w])
          /\ queue' = Unlink(queue)
          /\ num_files' = num_files - 1
          /\ producer_cond' \in Signalled(producer_cond)
          /\ qlock' = NoThread
          /\ pc' = [pc EXCEPT ![w] = "grep"]
          /\ UNCHANGED consumer_cond
  /\ UNCHANGED <<cfgvars, mainvars, producer_done, lockvars, status, ctx, loc,
                 closed, scanned, selected, counts, failed, enq_log, ret, used,
                 errseen, stdout, stderr,
                 exit_code, exiting>>

\* finish_workqueue, with the lock held: producer_done = 1, broadcast, unlock
FinishWorkqueue ==
  /\ Running
  /\ pc[MainThread] = "finish_locked"
  /\ qlock = MainThread
  /\ producer_done' = TRUE
  /\ consumer_cond' \in Broadcast(consumer_cond)
  /\ qlock' = NoThread
  /\ pc' = [pc EXCEPT ![MainThread] = "pthread_join"]
  /\ UNCHANGED <<cfgvars, mainvars, queue, num_files, producer_cond, lockvars,
                 workvars, ghostvars, ret, used, errseen, stdout, stderr,
                 exit_code, exiting>>

\* pthread_cond_wait may return without a signal (spurious wakeup)
SpuriousWakeup(t) ==
  /\ Running
  /\ \/ /\ t \in consumer_cond
        /\ consumer_cond' = consumer_cond \ {t}
        /\ UNCHANGED producer_cond
     \/ /\ t \in producer_cond
        /\ producer_cond' = producer_cond \ {t}
        /\ UNCHANGED consumer_cond
  /\ UNCHANGED <<cfgvars, mainvars, queue, num_files, producer_done, qlock,
                 lockvars, workvars, ghostvars, pc, ret, used, errseen, stdout,
                 stderr, exit_code, exiting>>

\* main: pthread_join (worker_threads[i]) and status = status && !!worker_status
Join ==
  /\ Running
  /\ pc[MainThread] = "pthread_join"
  /\ joini <= opt.num_threads
  /\ pc[joini] = "worker_returned"
  /\ mstatus' = IF mstatus # 0 /\ status[joini] THEN 1 ELSE 0
  /\ joini' = joini + 1
  /\ UNCHANGED <<cfgvars, argi, queuevars, lockvars, workvars, ghostvars, pc,
                 ret, used, errseen, stdout, stderr, exit_code, exiting>>

\* main: return errseen ? EXIT_TROUBLE : status
MainReturn ==
  /\ Running
  /\ pc[MainThread] = "pthread_join"
  /\ joini > opt.num_threads
  /\ exit_code' = IF errseen THEN EXIT_TROUBLE ELSE mstatus
  /\ ExitCall(MainThread, exit_code')
  /\ pc' = [pc EXCEPT ![MainThread] = "returned"]
  /\ UNCHANGED <<cfgvars, mainvars, queuevars, lockvars, workvars, ghostvars,
                 ret, used, errseen, stdout, stderr>>

\* ---------------------------------------------------------------- fillbuf
\* usable_st_size (st)
usable_st_size(f) == f.isreg

Uninit(n) == [i \in 1..n |-> "u"]
NoOrigin(n) == [i \in 1..n |-> -1]

\* Grow newsize until it is at least as great as minsize.
RECURSIVE GrowSize(_, _)
GrowSize(newsize, minsize) ==
  IF newsize < minsize THEN GrowSize(newsize * 2, minsize) ELSE newsize

\* a fillbuf that moves the saved bytes and leaves the byte before them
SentinelOmitted(b, bufbeg) == b

\* fillbuf, after the memmove of the saved bytes: ctx->bufbeg[-1] = eolbyte
Sentinel(b, bufbeg) == Store(b, bufbeg - 1, <<eolbyte>>)

\* fillbuf (ctx, save, st) up to its first read: the old stuff is kept in
\* place when a page fits after buflim, and else moved to the front of the
\* buffer, which is replaced by a larger one when it is too small.  The
\* buffer is taken to start on a page boundary.  The result is the context
\* and readbuf.
FillPlace(c, save, f) ==
  LET saved_offset == c.buflim - save
  IN IF PageSize <= c.bufalloc - UwordSize - c.buflim
     THEN [c |-> [c EXCEPT !.bufbeg = c.buflim - save], readbuf |-> c.buflim]
     ELSE LET minsize == save + PageSize
              grown == GrowSize(c.bufalloc - PageSize - UwordSize, minsize)
              to_be_read == Len(f.content) - c.bufoffset
              maxsize_off == save + to_be_read
              newsize == IF /\ usable_st_size(f)
                            /\ 0 <= to_be_read
                            /\ to_be_read <= maxsize_off
                            /\ minsize <= maxsize_off
                            /\ maxsize_off < grown
                         THEN maxsize_off ELSE grown
              newalloc == newsize + PageSize + UwordSize
              fresh == c.bufalloc < newalloc
              bufalloc == IF fresh THEN newalloc ELSE c.bufalloc
              readbuf == ALIGN_TO(1 + save, PageSize)
              bufbeg == readbuf - save
              moved == Slice(c.buffer, saved_offset, save)
              movedorg == Slice(c.org, saved_offset, save)
              newbuf == IF fresh THEN Uninit(newalloc) ELSE c.buffer
              neworg == IF fresh THEN NoOrigin(newalloc) ELSE c.org
          IN [c |-> [c EXCEPT !.bufalloc = bufalloc,
                              !.bufbeg = bufbeg,
                              !.buffer = Sentinel(Store(newbuf, bufbeg, moved),
                                                  bufbeg),
                              !.org = Store(neworg, bufbeg, movedorg)],
              readbuf |-> readbuf]

\* readsize of fillbuf: the room after readbuf, a multiple of the page size
ReadSize(c, readbuf) ==
  LET room == c.bufalloc - UwordSize - readbuf
  IN room - (room % PageSize)

\* the byte counts safe_read (bufdesc, readbuf, readsize) can return at file
\* position pos: 0 at end of file, a full read of a regular file, any
\* non-empty prefix of what a pipe holds
ReadCounts(f, pos, readsize) ==
  LET avail == Min(readsize, Len(f.content) - pos)
  IN IF avail <= 0 THEN {0}
     ELSE IF f.isreg THEN {avail}
     ELSE 1..avail

\* lseek (bufdesc, bufoffset, SEEK_DATA) on a file without holes: the offset
\* itself inside a regular file, failure at its end and on a pipe
SeekData(f, off) ==
  IF f.isreg /\ off < Len(f.content) THEN off ELSE -1

\* ------------------------------------------------------------- worker, grep
\* worker_thread_func up to its first dequeue_workfile
WorkerStart(w) ==
  /\ Running
  /\ pc[w] = "worker_thread_func"
  /\ LET bufalloc == ALIGN_TO(InitialBufsize, PageSize) + PageSize + UwordSize
     IN ctx' = [ctx EXCEPT ![w] = [ZeroCtx EXCEPT !.bufalloc = bufalloc,
                                                  !.buffer = Uninit(bufalloc),
                                                  !.org = NoOrigin(bufalloc),
                                                  !.out_quiet = opt.out_quiet,
                                                  !.done_on_match = opt.done_on_match]]
  /\ status' = [status EXCEPT ![w] = TRUE]
  /\ pc' = [pc EXCEPT ![w] = "dequeue_workfile"]
  /\ UNCHANGED <<cfgvars, mainvars, queuevars, lockvars, wf, loc, ghostvars,
                 ret, used, errseen, stdout, stderr, exit_code, exiting>>

\* reset (ctx, fd, st): bufbeg = buflim = the first page boundary after the
\* buffer's first byte, bufbeg[-1] = eolbyte, and bufoffset = 0 for a
\* regular file (left as it is for any other)
reset(c, f) ==
  LET beg == ALIGN_TO(1, PageSize)
  IN [c EXCEPT !.bufbeg = beg,
               !.buflim = beg,
               !.buffer = Store(c.buffer, beg - 1, <<eolbyte>>),
               !.bufdesc = f.fd,
               !.bufoffset = IF f.isreg THEN 0 ELSE c.bufoffset,
               !.fpos = 0]

\* a max_count that all the files of the run share: nothing is left for a
\* file once a line of any file has been selected
OutleftShared(left) ==
  IF \E a \in 1..Len(args) : selected[a] > 0 THEN 0 ELSE opt.max_count

\* grep: ctx->outleft = max_count, whatever the last file left of it
OutleftAtStart(left) == opt.max_count

\* grep (ctx, fd, st) up to the first read of its first fillbuf
GrepStart(w) ==
  /\ Running
  /\ pc[w] = "grep"
  /\ LET f == args[wf[w]]
         c1 == [reset(ctx[w], f) EXCEPT !.totalcc = 0,
                                        !.lastout = NULL,
                                        !.totalnl = 0,
                                        !.outleft = OutleftAtStart(ctx[w].outleft),
                                        !.after_last_match = 0,
                                        !.pending = 0,
                                        !.skip_nuls = skip_empty_lines /\ eolbyte = "z",
                                        !.encoding_error_output = FALSE,
                                        !.seek_data_failed = FALSE]
         fp == FillPlace(c1, 0, f)
     IN /\ ctx' = [ctx EXCEPT ![w] = fp.c]
        /\ loc' = [loc EXCEPT ![w] = [ZeroLoc EXCEPT
                       !.done_on_match_0 = ctx[w].done_on_match,
                       !.out_quiet_0 = ctx[w].out_quiet,
                       !.readbuf = fp.readbuf,
                       !.fb_ret = "first"]]
  /\ pc' = [pc EXCEPT ![w] = "fillbuf"]
  /\ UNCHANGED <<cfgvars, mainvars, queuevars, lockvars, wf, status,
                 ghostvars, ret, used, errseen, stdout, stderr, exit_code, exiting>>

\* fillbuf: one safe_read into readbuf.  An all-zero chunk is dropped and
\* counted as end-of-line bytes when skip_nuls is set, and the read is
\* repeated after a SEEK_DATA; any other result ends fillbuf, which sets
\* buflim and zeroes the word after it.  A failed read is a suppressible
\* error: grep returns 0 from its first fillbuf and goes to finish_grep
\* from a later one.
FillRead(w) ==
  /\ Running
  /\ pc[w] = "fillbuf"
  /\ LET f == args[wf[w]]
         c == ctx[w]
         readbuf == loc[w].readbuf
         readfails == f.failat = c.fpos
     IN \E fillsize \in IF readfails THEN {0}
                        ELSE ReadCounts(f, c.fpos, ReadSize(c, readbuf)) :
          LET chunk == Slice(f.content, c.fpos, fillsize)
              orgs == [i \in 1..fillsize |-> c.fpos + i - 1]
              c1 == [c EXCEPT !.buffer = Store(c.buffer, readbuf, chunk),
                              !.org = Store(c.org, readbuf, orgs),
                              !.bufoffset = c.bufoffset + fillsize,
                              !.fpos = c.fpos + fillsize]
          IN IF fillsize = 0 \/ ~c.skip_nuls \/ ~all_zeros(chunk)
             THEN /\ ctx' = [ctx EXCEPT ![w] =
                       [c1 EXCEPT !.buflim = readbuf + fillsize,
                                  !.buffer = Store(c1.buffer, readbuf + fillsize,
                                                   [i \in 1..UwordSize |-> "z"])]]
                  /\ IF ~readfails
                     THEN /\ pc' = [pc EXCEPT ![w] = "grep_loop"]
                          /\ UNCHANGED <<ret, errseen, loc, failed>>
                     ELSE /\ SuppressibleError(w,
                                IF loc[w].fb_ret = "first" THEN "worker_count"
                                ELSE "finish_grep")
                          /\ failed' = failed \cup {<<wf[w], "read">>}
                          /\ UNCHANGED loc
             ELSE LET data_start == SeekData(f, c1.bufoffset)
                      c2 == [c1 EXCEPT !.totalnl = c1.totalnl + fillsize]
                  IN /\ ctx' = [ctx EXCEPT ![w] =
                          IF c2.seek_data_failed THEN c2
                          ELSE IF data_start < 0
                          THEN [c2 EXCEPT !.seek_data_failed = TRUE]
                          ELSE [c2 EXCEPT !.totalnl = c2.totalnl + (data_start - c2.bufoffset),
                                          !.bufoffset = data_start,
                                          !.fpos = data_start]]
                     /\ UNCHANGED <<pc, ret, errseen, loc, failed>>
  /\ UNCHANGED <<cfgvars, mainvars, queuevars, lockvars, wf, status, closed,
                 scanned, selected, counts, enq_log, deq_log, used, stdout,
                 stderr, exit_code, exiting>>

\* -------------------------------------------------------------- line output
\* nlscan (ctx, lim): count the end-of-line bytes of [lastnl, lim)
nlscan(c, lim) ==
  LET newlines == Cardinality({o \in c.lastnl..(lim - 1) : At(c.buffer, o) = eolbyte})
  IN [c EXCEPT !.totalnl = c.totalnl + newlines, !.lastnl = lim]

\* one record of stdout: the thread that wrote it, the file it is about, its
\* kind ("sel" selected line, "ctx" context line, "sep" group separator,
\* "bin" Binary file ... matches, "name" file name, "count" -c count), the
\* file offset of the first byte of a line, and the numbers printed with it
OutRec(t, fi, k, off, ln, bo) ==
  [th |-> t, f |-> fi, k |-> k, off |-> off, ln |-> ln, bo |-> bo]

\* stdout_errno once n records have been handed to standard output: the
\* stream takes opt.stdout_room records (any number if that is -1) and
\* every write after them fails
WriteFailed(n) == opt.stdout_room # -1 /\ n > opt.stdout_room

stdout_errno == WriteFailed(Len(stdout))

\* prline, after its writes: if (stdout_errno) ts_error (EXIT_TROUBLE, ...),
\* else the caller goes on at next.  r is the result of prline; a line that
\* print_line_head suppressed returns before the test.
AfterPrline(t, r, next) ==
  IF r.out # <<>> /\ WriteFailed(Len(stdout) + Len(r.out))
  THEN /\ pc' = [pc EXCEPT ![t] = "ts_error"]
       /\ ret' = [ret EXCEPT ![t] = "exit"]
  ELSE /\ pc' = [pc EXCEPT ![t] = next]
       /\ UNCHANGED ret

\* prline (ctx, beg, lim, sep) (without -o and colours): print_line_head
\* suppresses a line with an encoding error and turns the scan quiet;
\* otherwise the line head and the line are written and lastout = lim.
\* The result is the context and the records written.
prline(t, fi, c, beg, lim, sep) ==
  IF opt.binary_files # "text" /\ buf_has_encoding_errors(c.buffer, beg, lim - beg - 1)
  THEN [c |-> [c EXCEPT !.encoding_error_output = TRUE,
                        !.done_on_match = TRUE,
                        !.out_quiet = TRUE],
        out |-> <<>>]
  ELSE LET c1 == IF opt.out_line /\ c.lastnl < lim
                 THEN [nlscan(c, beg) EXCEPT !.totalnl = @ + 1, !.lastnl = lim]
                 ELSE c
           ln == IF opt.out_line THEN c1.totalnl ELSE 0
           bo == IF opt.out_byte THEN c1.totalcc + (beg - c1.bufbeg) ELSE 0
           k == IF sep = SEP_CHAR_SELECTED THEN "sel" ELSE "ctx"
       IN [c |-> [c1 EXCEPT !.lastout = lim],
           out |-> <<OutRec(t, fi, k, At(c.org, beg), ln, bo)>>]

\* the start of the line that ends just before p: do --p; while (p[-1] != eol)
RECURSIVE LineBack(_, _)
LineBack(b, p) ==
  IF p - 1 <= 0 THEN 0
  ELSE IF At(b, p - 2) = eolbyte THEN p - 1
  ELSE LineBack(b, p - 1)

\* a walk back that takes one line more than out_before
RECURSIVE LeadingContextOneMore(_, _, _, _)
LeadingContextOneMore(b, p, bp, n) ==
  IF n < 0 \/ p <= bp THEN p
  ELSE LeadingContextOneMore(b, LineBack(b, p), bp, n - 1)

\* for (i = 0; i < n; ++i) if (p > bp) do --p; while (p[-1] != eol);
RECURSIVE LeadingContext(_, _, _, _)
LeadingContext(b, p, bp, n) ==
  IF n <= 0 \/ p <= bp THEN p
  ELSE LeadingContext(b, LineBack(b, p), bp, n - 1)

\* grep: while (i < out_before && beg > bufbeg && beg != lastout)
\*         { ++i; do --beg; while (beg[-1] != eol); }
RECURSIVE SaveContext(_, _, _, _, _)
SaveContext(b, beg, bufbeg, lastout, n) ==
  IF n <= 0 \/ beg <= bufbeg \/ beg = lastout THEN beg
  ELSE SaveContext(b, LineBack(b, beg), bufbeg, lastout, n - 1)

\* ------------------------------------------------------------ grep: the loop
\* file_must_have_nulls (ctx, size, fd, st): a regular file larger than what
\* was read, with a hole (SEEK_HOLE) before its end
file_must_have_nulls(f, size, cur) ==
  /\ usable_st_size(f)
  /\ Len(f.content) > size
  /\ \E h \in f.holes : cur <= h /\ h < Len(f.content)

\* where the pending-context call and the termination test of grep's loop,
\* or the end of the residue block, continue
AfterGrepbuf(c, l) ==
  IF c.pending # 0 THEN "prpending"
  ELSE IF l.gb_ret = "loop" THEN "grep_check"
  ELSE "finish_grep"

\* grep: one turn of for (firsttime ...) from its head to the call of
\* grepbuf: binary detection, NUL zapping, lim and residue
GrepLoop(w) ==
  /\ Running
  /\ pc[w] = "grep_loop"
  /\ LET f == args[wf[w]]
         c == ctx[w]
         l == loc[w]
         size == c.buflim - c.bufbeg
         probing == /\ l.nlines_first_null < 0 /\ eolbyte # "z"
                    /\ opt.binary_files # "text"
         nulls == /\ probing
                  /\ \/ buf_has_nulls(c.buffer, c.bufbeg, size)
                     \/ /\ l.firsttime
                        /\ file_must_have_nulls(f, size,
                              IF f.fd = STDIN_FILENO THEN c.fpos ELSE size)
         \* buf_has_nulls stores a NUL at buf[size]
         b0 == IF probing THEN Store(c.buffer, c.buflim, <<"z">>) ELSE c.buffer
     IN IF nulls /\ opt.binary_files = "without-match"
        THEN /\ ctx' = [ctx EXCEPT ![w].buffer = b0]
             /\ loc' = [loc EXCEPT ![w].count = 0]
             /\ pc' = [pc EXCEPT ![w] = "worker_count"]
        ELSE LET quiet == nulls /\ ~opt.count_matches
                 nul_zapper == IF nulls THEN eolbyte ELSE l.nul_zapper
                 beg0 == c.bufbeg + l.save
                 \* zap_nuls leaves eol at *lim unless eol is NUL
                 b1 == IF beg0 = c.buflim \/ nul_zapper = "z" THEN b0
                       ELSE Store(zap_nuls(b0, beg0, c.buflim, nul_zapper),
                                  c.buflim, <<nul_zapper>>)
                 last == memrchr(b1, beg0, eolbyte, c.buflim - beg0)
                 lim0 == IF last = NULL THEN beg0 ELSE last + 1
                 lim == IF lim0 = beg0 THEN beg0 - l.residue ELSE lim0
                 beg == beg0 - l.residue
                 c1 == [c EXCEPT !.buffer = b1,
                                 !.done_on_match = IF quiet THEN TRUE ELSE @,
                                 !.out_quiet = IF quiet THEN TRUE ELSE @,
                                 !.skip_nuls = IF nulls THEN skip_empty_lines ELSE @,
                                 !.lastnl = c.bufbeg,
                                 !.lastout = IF @ # NULL THEN c.bufbeg ELSE @]
                 l1 == [l EXCEPT !.nlines_first_null = IF nulls THEN l.nlines ELSE @,
                                 !.nul_zapper = nul_zapper]
             IN /\ ctx' = [ctx EXCEPT ![w] = c1]
                /\ IF beg0 = c.buflim
                   THEN /\ loc' = [loc EXCEPT ![w] = [l1 EXCEPT !.beg = beg0]]
                        /\ pc' = [pc EXCEPT ![w] = "grep_residue"]
                   ELSE LET l2 == [l1 EXCEPT !.beg = beg,
                                             !.lim = lim,
                                             !.residue = c.buflim - lim,
                                             !.gb_p = beg,
                                             !.gb_lim = lim,
                                             !.gb_ret = "loop",
                                             !.outleft0 = c.outleft]
                        IN /\ loc' = [loc EXCEPT ![w] = l2]
                           /\ pc' = [pc EXCEPT ![w] =
                                 IF beg < lim
                                 THEN IF c.outleft # 0 THEN "grepbuf"
                                      ELSE AfterGrepbuf(c1, l2)
                                 ELSE "grep_save"]
  /\ UNCHANGED <<cfgvars, mainvars, queuevars, lockvars, wf, status,
                 ghostvars, ret, used, errseen, stdout, stderr, exit_code, exiting>>

\* grep: the termination test after grepbuf and prpending
GrepCheck(w) ==
  /\ Running
  /\ pc[w] = "grep_check"
  /\ LET c == ctx[w]
         l == loc[w]
     IN pc' = [pc EXCEPT ![w] =
          IF \/ c.outleft = 0 /\ c.pending = 0
             \/ c.done_on_match /\ Max(0, l.nlines_first_null) < l.nlines
          THEN "finish_grep" ELSE "grep_save"]
  /\ UNCHANGED <<cfgvars, mainvars, queuevars, lockvars, workvars, ghostvars,
                 ret, used, errseen, stdout, stderr, exit_code, exiting>>

\* a byte count that takes the saved bytes for bytes already scanned
BufferBytes(c, save) == c.buflim - c.bufbeg

\* grep: buflim - bufbeg - save, the bytes of the buffer that are not kept
\* for the next one
ScannedBytes(c, save) == c.buflim - c.bufbeg - save

\* grep: keep the last out_before lines and the residue, count bytes and
\* lines, and call fillbuf (up to its first read)
GrepSave(w) ==
  /\ Running
  /\ pc[w] = "grep_save"
  /\ LET f == args[wf[w]]
         c == ctx[w]
         l == loc[w]
         beg == SaveContext(c.buffer, l.lim, c.bufbeg, c.lastout, opt.out_before)
         save == l.residue + l.lim - beg
         c1 == [c EXCEPT !.lastout = IF beg # c.lastout THEN NULL ELSE @,
                         !.totalcc = IF opt.out_byte
                                     THEN @ + ScannedBytes(c, save) ELSE @]
         c2 == IF opt.out_line THEN nlscan(c1, beg) ELSE c1
         fp == FillPlace(c2, save, f)
     IN /\ ctx' = [ctx EXCEPT ![w] = fp.c]
        /\ loc' = [loc EXCEPT ![w] = [l EXCEPT !.beg = beg,
                                                !.save = save,
                                                !.readbuf = fp.readbuf,
                                                !.fb_ret = "loop",
                                                !.firsttime = FALSE]]
  /\ pc' = [pc EXCEPT ![w] = "fillbuf"]
  /\ UNCHANGED <<cfgvars, mainvars, queuevars, lockvars, wf, status,
                 ghostvars, ret, used, errseen, stdout, stderr, exit_code, exiting>>

\* an end of file that forgets the incomplete last line
ResidueDropped(residue) == FALSE

\* grep, after the loop: if (residue)
HasResidue(residue) == residue # 0

\* grep: after the loop, a residue gets an end-of-line byte and is scanned
GrepResidue(w) ==
  /\ Running
  /\ pc[w] = "grep_residue"
  /\ LET c == ctx[w]
         l == loc[w]
     IN IF ~HasResidue(l.residue)
        THEN /\ pc' = [pc EXCEPT ![w] = "finish_grep"]
             /\ UNCHANGED <<ctx, loc>>
        ELSE LET c1 == [c EXCEPT !.buffer = Store(c.buffer, c.buflim, <<eolbyte>>),
                                 !.buflim = c.buflim + 1]
                 l1 == [l EXCEPT !.gb_p = c.bufbeg + l.save - l.residue,
                                 !.gb_lim = c1.buflim,
                                 !.gb_ret = "residue",
                                 !.outleft0 = c.outleft]
             IN /\ ctx' = [ctx EXCEPT ![w] = c1]
                /\ loc' = [loc EXCEPT ![w] = l1]
                /\ pc' = [pc EXCEPT ![w] =
                      IF c.outleft # 0 THEN "grepbuf" ELSE AfterGrepbuf(c1, l1)]
  /\ UNCHANGED <<cfgvars, mainvars, queuevars, lockvars, wf, status,
                 ghostvars, ret, used, errseen, stdout, stderr, exit_code, exiting>>

\* a finish_grep that leaves the flag as the scan set it
FlagKept(saved, current) == current

\* finish_grep: ctx->done_on_match = done_on_match_0 (and out_quiet alike)
RestoredFlag(saved, current) == saved

\* finish_grep: restore done_on_match and out_quiet; nlines is the result
FinishGrep(w) ==
  /\ Running
  /\ pc[w] = "finish_grep"
  /\ LET c == ctx[w]
         l == loc[w]
     IN /\ ctx' = [ctx EXCEPT
              ![w].done_on_match = RestoredFlag(l.done_on_match_0, c.done_on_match),
              ![w].out_quiet = RestoredFlag(l.out_quiet_0, c.out_quiet)]
        /\ loc' = [loc EXCEPT ![w].count = l.nlines]
        /\ pc' = [pc EXCEPT ![w] =
              IF /\ ~l.out_quiet_0
                 /\ \/ c.encoding_error_output
                    \/ 0 <= l.nlines_first_null /\ l.nlines_first_null < l.nlines
              THEN "binary_matches" ELSE "worker_count"]
  /\ UNCHANGED <<cfgvars, mainvars, queuevars, lockvars, wf, status,
                 ghostvars, ret, used, errseen, stdout, stderr, exit_code, exiting>>

\* finish_grep: lock_output (); printf_errno ("Binary file %s matches\n")
BinaryMatches(w) ==
  /\ Running
  /\ pc[w] = "binary_matches"
  /\ CanLockOutput(w)
  /\ out_owner' = w
  /\ out_depth' = out_depth + 1
  /\ stdout' = Append(stdout, OutRec(w, wf[w], "bin", -1, 0, 0))
  /\ pc' = [pc EXCEPT ![w] = "binary_unlock"]
  /\ UNCHANGED <<cfgvars, mainvars, queuevars, workvars, ghostvars, ret, used,
                 errseen, stderr, exit_code, exiting>>

\* finish_grep: unlock_output (); return nlines
BinaryUnlock(w) ==
  /\ Running
  /\ pc[w] = "binary_unlock"
  /\ out_owner' = UnlockedOwner
  /\ out_depth' = out_depth - 1
  /\ pc' = [pc EXCEPT ![w] = "worker_count"]
  /\ UNCHANGED <<cfgvars, mainvars, queuevars, workvars, ghostvars, ret, used,
                 errseen, stdout, stderr, exit_code, exiting>>

\* a count of the calls of prtext instead of the lines it wrote
LinesOutputAsCalls(outleft0, outleft) == IF outleft0 # outleft THEN 1 ELSE 0

\* grepbuf: return outleft0 - ctx->outleft
LinesOutput(outleft0, outleft) == outleft0 - outleft

\* ------------------------------------------------------ grepbuf and prtext
\* grepbuf: one turn of for (p = beg; p < lim; p = endp) up to the call of
\* prtext (whose first statement may call prpending); the return adds
\* outleft0 - outleft to nlines
Grepbuf(w) ==
  /\ Running
  /\ pc[w] = "grepbuf"
  /\ LET c == ctx[w]
         l == loc[w]
         p == l.gb_p
         lim == l.gb_lim
         m == execute(c.buffer, p, lim - p)
         nomatch == m.off = -1
         b == IF nomatch THEN lim ELSE p + m.off
         endp == IF nomatch THEN lim ELSE b + m.size
         done == [l EXCEPT !.nlines = @ + LinesOutput(l.outleft0, c.outleft)]
     IN IF \/ p >= lim
           \/ nomatch /\ ~opt.out_invert
           \/ ~opt.out_invert /\ b = lim
        THEN /\ loc' = [loc EXCEPT ![w] = done]
             /\ pc' = [pc EXCEPT ![w] = AfterGrepbuf(c, l)]
        ELSE IF ~opt.out_invert \/ p < b
        THEN /\ loc' = [loc EXCEPT ![w] =
                  [l EXCEPT !.gb_endp = endp,
                            !.pt_beg = IF opt.out_invert THEN p ELSE b,
                            !.pt_lim = IF opt.out_invert THEN b ELSE endp]]
             /\ pc' = [pc EXCEPT ![w] =
                  IF ~c.out_quiet /\ c.pending > 0 THEN "prtext_prpending"
                  ELSE "prtext"]
        ELSE /\ loc' = [loc EXCEPT ![w].gb_p = endp]
             /\ UNCHANGED pc
  /\ UNCHANGED <<cfgvars, mainvars, queuevars, lockvars, wf, status, ctx,
                 ghostvars, ret, used, errseen, stdout, stderr, exit_code, exiting>>

\* prpending (ctx, lim) up to its loop: lastout defaults to bufbeg;
\* lock_output ().  It is called by prtext with lim = beg, and by grep with
\* lim or buflim.
PrpendingLock(w) ==
  /\ Running
  /\ pc[w] \in {"prpending", "prtext_prpending"}
  /\ CanLockOutput(w)
  /\ out_owner' = w
  /\ out_depth' = out_depth + 1
  /\ ctx' = [ctx EXCEPT ![w].lastout = IF @ = NULL THEN ctx[w].bufbeg ELSE @]
  /\ loc' = [loc EXCEPT ![w].pp_lim = IF pc[w] = "prtext_prpending"
                                      THEN loc[w].pt_beg
                                      ELSE IF loc[w].gb_ret = "loop"
                                      THEN loc[w].lim ELSE ctx[w].buflim,
                        ![w].pp_ret = IF pc[w] = "prtext_prpending"
                                      THEN "prtext" ELSE loc[w].gb_ret]
  /\ pc' = [pc EXCEPT ![w] = "prpending_line"]
  /\ UNCHANGED <<cfgvars, mainvars, queuevars, wf, status, ghostvars, ret,
                 used, errseen, stdout, stderr, exit_code, exiting>>

\* trailing context that does not end at the next selected line
PendingLineAlways(c, m) == TRUE

\* prpending: if (outleft || ((execute (...) == (size_t) -1) == !out_invert))
PendingLineDue(c, m) == c.outleft # 0 \/ ((m.off = -1) = ~opt.out_invert)

\* prpending: one turn of while (pending > 0 && lastout < lim), or the end
\* of the loop and unlock_output ()
PrpendingLine(w) ==
  /\ Running
  /\ pc[w] = "prpending_line"
  /\ LET c == ctx[w]
         l == loc[w]
     IN IF c.pending > 0 /\ c.lastout < l.pp_lim
        THEN LET nl == memchr(c.buffer, c.lastout, eolbyte, l.pp_lim - c.lastout)
                 c1 == [c EXCEPT !.pending = @ - 1]
                 m == execute(c.buffer, c.lastout, nl + 1 - c.lastout)
                 r == prline(w, wf[w], c1, c.lastout, nl + 1, SEP_CHAR_REJECTED)
             IN IF PendingLineDue(c, m)
                THEN /\ ctx' = [ctx EXCEPT ![w] = r.c]
                     /\ stdout' = stdout \o r.out
                     /\ AfterPrline(w, r, pc[w])
                     /\ UNCHANGED lockvars
                ELSE /\ ctx' = [ctx EXCEPT ![w] = [c1 EXCEPT !.pending = 0]]
                     /\ UNCHANGED <<pc, ret, lockvars, stdout>>
        ELSE /\ out_owner' = UnlockedOwner
             /\ out_depth' = out_depth - 1
             /\ pc' = [pc EXCEPT ![w] =
                   IF l.pp_ret = "prtext" THEN "prtext"
                   ELSE IF l.pp_ret = "loop" THEN "grep_check"
                   ELSE "finish_grep"]
             /\ UNCHANGED <<ctx, stdout, ret>>
  /\ UNCHANGED <<cfgvars, mainvars, queuevars, wf, status, loc, ghostvars,
                 used, errseen, stderr, exit_code, exiting>>

\* a separator before every group but the first, adjacent or not
GroupSeparatorAlways(c, p) ==
  /\ 0 <= opt.out_before \/ 0 <= opt.out_after
  /\ used

\* prtext: if ((0 <= out_before || 0 <= out_after) && used
\*             && p != ctx->lastout && group_separator)
GroupSeparatorDue(c, p) ==
  /\ 0 <= opt.out_before \/ 0 <= opt.out_after
  /\ used
  /\ p # c.lastout

\* prtext (ctx, beg, lim) after its prpending: lock_output (); the leading
\* context is found by walking back from beg, and the group separator is
\* written unless the output is adjacent to the previous output
PrtextLock(w) ==
  /\ Running
  /\ pc[w] = "prtext"
  /\ CanLockOutput(w)
  /\ out_owner' = w
  /\ out_depth' = out_depth + 1
  /\ LET c == ctx[w]
         l == loc[w]
         bp == IF c.lastout # NULL THEN c.lastout ELSE c.bufbeg
         p == IF c.out_quiet THEN l.pt_beg
              ELSE LeadingContext(c.buffer, l.pt_beg, bp, opt.out_before)
         sep == ~c.out_quiet /\ GroupSeparatorDue(c, p)
     IN /\ loc' = [loc EXCEPT ![w].pt_p = p, ![w].pt_n = 0]
        /\ stdout' = IF sep THEN Append(stdout, OutRec(w, wf[w], "sep", -1, 0, 0))
                     ELSE stdout
        /\ pc' = [pc EXCEPT ![w] =
              IF p < l.pt_beg THEN "prtext_context" ELSE "prtext_selected"]
  /\ UNCHANGED <<cfgvars, mainvars, queuevars, wf, status, ctx, ghostvars,
                 ret, used, errseen, stderr, exit_code, exiting>>

\* prtext: one turn of while (p < beg), a line of leading context
PrtextContext(w) ==
  /\ Running
  /\ pc[w] = "prtext_context"
  /\ LET c == ctx[w]
         l == loc[w]
         nl == memchr(c.buffer, l.pt_p, eolbyte, l.pt_beg - l.pt_p) + 1
         r == prline(w, wf[w], c, l.pt_p, nl, SEP_CHAR_REJECTED)
     IN /\ ctx' = [ctx EXCEPT ![w] = r.c]
        /\ stdout' = stdout \o r.out
        /\ loc' = [loc EXCEPT ![w].pt_p = nl]
        /\ AfterPrline(w, r, IF nl < l.pt_beg THEN "prtext_context"
                                              ELSE "prtext_selected")
  /\ UNCHANGED <<cfgvars, mainvars, queuevars, lockvars, wf, status,
                 ghostvars, used, errseen, stderr, exit_code, exiting>>

\* prtext: the selected lines: the one line beg ... lim, or with -v one turn
\* of for (n = 0; p < lim && n < outleft; n++)
PrtextSelected(w) ==
  /\ Running
  /\ pc[w] = "prtext_selected"
  /\ LET c == ctx[w]
         l == loc[w]
     IN IF ~opt.out_invert
        THEN LET r == IF c.out_quiet THEN [c |-> c, out |-> <<>>]
                      ELSE prline(w, wf[w], c, l.pt_beg, l.pt_lim, SEP_CHAR_SELECTED)
             IN /\ ctx' = [ctx EXCEPT ![w] = r.c]
                /\ stdout' = stdout \o r.out
                /\ loc' = [loc EXCEPT ![w].pt_n = 1, ![w].pt_p = l.pt_lim]
                /\ AfterPrline(w, r, "prtext_unlock")
        ELSE IF l.pt_p < l.pt_lim /\ l.pt_n < c.outleft
        THEN LET nl == memchr(c.buffer, l.pt_p, eolbyte, l.pt_lim - l.pt_p) + 1
                 r == IF c.out_quiet THEN [c |-> c, out |-> <<>>]
                      ELSE prline(w, wf[w], c, l.pt_p, nl, SEP_CHAR_SELECTED)
             IN /\ ctx' = [ctx EXCEPT ![w] = r.c]
                /\ stdout' = stdout \o r.out
                /\ loc' = [loc EXCEPT ![w].pt_n = @ + 1, ![w].pt_p = nl]
                /\ AfterPrline(w, r, pc[w])
        ELSE /\ pc' = [pc EXCEPT ![w] = "prtext_unlock"]
             /\ UNCHANGED <<ctx, loc, stdout, ret>>
  /\ UNCHANGED <<cfgvars, mainvars, queuevars, lockvars, wf, status,
                 ghostvars, used, errseen, stderr, exit_code, exiting>>

\* prtext: after_last_match, pending, used and outleft are set under the
\* lock; unlock_output ()
PrtextUnlock(w) ==
  /\ Running
  /\ pc[w] = "prtext_unlock"
  /\ LET c == ctx[w]
         l == loc[w]
     IN ctx' = [ctx EXCEPT ![w] =
           [c EXCEPT !.after_last_match = c.bufoffset - (c.buflim - l.pt_p),
                     !.pending = IF c.out_quiet THEN 0 ELSE Max(0, opt.out_after),
                     !.outleft = @ - l.pt_n]]
  /\ used' = TRUE
  /\ out_owner' = UnlockedOwner
  /\ out_depth' = out_depth - 1
  /\ selected' = [selected EXCEPT ![wf[w]] = @ + loc[w].pt_n]
  /\ pc' = [pc EXCEPT ![w] = "grepbuf_prtext_done"]
  /\ UNCHANGED <<cfgvars, mainvars, queuevars, wf, status, loc, closed,
                 scanned, counts, failed, enq_log, deq_log, ret, errseen, stdout,
                 stderr,
                 exit_code, exiting>>

\* a loop that scans the same range again
SamePosition(l) == l.gb_p

\* grepbuf: for (...; p < lim; p = endp)
NextPosition(l) == l.gb_endp

\* grepbuf after prtext: if (!outleft || done_on_match) the process exits
\* under exit_on_match and the loop ends otherwise; else p = endp
GrepbufNext(w) ==
  /\ Running
  /\ pc[w] = "grepbuf_prtext_done"
  /\ ~InExit(w)
  /\ LET c == ctx[w]
         l == loc[w]
     IN IF c.outleft = 0 \/ c.done_on_match
        THEN IF opt.exit_on_match
             THEN /\ ExitCall(w, IF errseen THEN opt.exit_failure ELSE EXIT_SUCCESS)
                  /\ UNCHANGED <<pc, loc>>
             ELSE /\ loc' = [loc EXCEPT ![w].nlines = @ + LinesOutput(l.outleft0, c.outleft)]
                  /\ pc' = [pc EXCEPT ![w] = AfterGrepbuf(c, l)]
                  /\ UNCHANGED exiting
        ELSE /\ loc' = [loc EXCEPT ![w].gb_p = NextPosition(l)]
             /\ pc' = [pc EXCEPT ![w] = "grepbuf"]
             /\ UNCHANGED exiting
  /\ UNCHANGED exit_code
  /\ UNCHANGED <<cfgvars, mainvars, queuevars, lockvars, wf, status, ctx,
                 ghostvars, ret, used, errseen, stdout, stderr>>

\* ------------------------------------------------- worker: after grep returns
\* a status that remembers the last file only
StatusOfLastFile(count, st) == count = 0

\* worker_thread_func: status = !count && status
StatusAfter(count, st) == (count = 0) /\ st

\* worker_thread_func after grep returns: the status, and what is reported
WorkerCount(w) ==
  /\ Running
  /\ pc[w] = "worker_count"
  /\ status' = [status EXCEPT ![w] = StatusAfter(loc[w].count, @)]
  /\ pc' = [pc EXCEPT ![w] =
        IF opt.count_matches THEN "count_matches"
        ELSE IF \/ opt.list_files = "matching" /\ loc[w].count > 0
                \/ opt.list_files = "nonmatching" /\ loc[w].count = 0
        THEN "list_files" ELSE "close"]
  /\ scanned' = [scanned EXCEPT ![wf[w]] = TRUE]
  /\ counts' = [counts EXCEPT ![wf[w]] = loc[w].count]
  /\ UNCHANGED <<cfgvars, mainvars, queuevars, lockvars, wf, ctx, loc,
                 closed, selected, failed, enq_log, deq_log, ret, used, errseen,
                 stdout, stderr,
                 exit_code, exiting>>

\* if (count_matches): lock_output (); the file name and separator if out_file
CountLock(w) ==
  /\ Running
  /\ pc[w] = "count_matches"
  /\ CanLockOutput(w)
  /\ out_owner' = w
  /\ out_depth' = out_depth + 1
  /\ stdout' = IF out_file THEN Append(stdout, OutRec(w, wf[w], "name", -1, 0, 0))
               ELSE stdout
  /\ pc' = [pc EXCEPT ![w] = "count_printf"]
  /\ UNCHANGED <<cfgvars, mainvars, queuevars, workvars, ghostvars, ret, used,
                 errseen, stderr, exit_code, exiting>>

\* printf_errno ("%" PRIdMAX "\n", count); unlock_output ()
CountWrite(w) ==
  /\ Running
  /\ pc[w] = "count_printf"
  /\ stdout' = Append(stdout, OutRec(w, wf[w], "count", -1, loc[w].count, 0))
  /\ out_owner' = UnlockedOwner
  /\ out_depth' = out_depth - 1
  /\ pc' = [pc EXCEPT ![w] =
        IF \/ opt.list_files = "matching" /\ loc[w].count > 0
           \/ opt.list_files = "nonmatching" /\ loc[w].count = 0
        THEN "list_files" ELSE "close"]
  /\ UNCHANGED <<cfgvars, mainvars, queuevars, workvars, ghostvars, ret, used,
                 errseen, stderr, exit_code, exiting>>

\* -l and -L: lock_output (); print_filename (&ctx); the newline
ListLock(w) ==
  /\ Running
  /\ pc[w] = "list_files"
  /\ CanLockOutput(w)
  /\ out_owner' = w
  /\ out_depth' = out_depth + 1
  /\ stdout' = Append(stdout, OutRec(w, wf[w], "name", -1, 0, 0))
  /\ pc' = [pc EXCEPT ![w] = "list_unlock"]
  /\ UNCHANGED <<cfgvars, mainvars, queuevars, workvars, ghostvars, ret, used,
                 errseen, stderr, exit_code, exiting>>

ListUnlock(w) ==
  /\ Running
  /\ pc[w] = "list_unlock"
  /\ out_owner' = UnlockedOwner
  /\ out_depth' = out_depth - 1
  /\ pc' = [pc EXCEPT ![w] = "close"]
  /\ UNCHANGED <<cfgvars, mainvars, queuevars, workvars, ghostvars, ret, used,
                 errseen, stdout, stderr, exit_code, exiting>>

\* the descriptor is closed unless it is standard input; a failed close is
\* a suppressible error; the work item is freed and the loop dequeues again
Close(w) ==
  /\ Running
  /\ pc[w] = "close"
  /\ LET f == args[wf[w]]
     IN IF f.fd # STDIN_FILENO
        THEN /\ closed' = [closed EXCEPT ![wf[w]] = Append(@, w)]
             /\ IF f.closefail
                THEN /\ SuppressibleError(w, "dequeue_workfile")
                     /\ failed' = failed \cup {<<wf[w], "close">>}
                ELSE /\ pc' = [pc EXCEPT ![w] = "dequeue_workfile"]
                     /\ UNCHANGED <<ret, errseen, failed>>
        ELSE /\ pc' = [pc EXCEPT ![w] = "dequeue_workfile"]
             /\ UNCHANGED <<closed, ret, errseen, failed>>
  /\ UNCHANGED <<cfgvars, mainvars, queuevars, lockvars, workvars, scanned,
                 selected, counts, enq_log, deq_log, used, stdout, stderr,
                 exit_code, exiting>>

\* exit (status) of thread t ends the process, after the functions registered
\* with atexit have run; until then the other threads run on.  When several
\* threads are in exit the behaviour is undefined: the status is that of any
\* of them.
Exit(t) ==
  /\ Running
  /\ InExit(t)
  /\ pc[t] # "returned"
  /\ exit_code' = exiting[t]
  /\ UNCHANGED <<cfgvars, mainvars, queuevars, lockvars, workvars, ghostvars,
                 pc, ret, used, errseen, stdout, stderr, exiting>>

\* ------------------------------------------------------------ specification
Next ==
  \/ MainStart
  \/ SearchArg
  \/ NextArg
  \/ Enqueue
  \/ FinishWorkqueue
  \/ Join
  \/ MainReturn
  \/ \E t \in Threads : QueueLock(t)
  \/ \E t \in Threads : SpuriousWakeup(t)
  \/ \E t \in Threads : TsErrorLock(t)
  \/ \E t \in Threads : TsErrorWrite(t)
  \/ \E t \in Threads : TsErrorUnlock(t)
  \/ \E t \in Threads : Exit(t)
  \/ \E w \in Workers : WorkerStart(w)
  \/ \E w \in Workers : Dequeue(w)
  \/ \E w \in Workers : GrepStart(w)
  \/ \E w \in Workers : FillRead(w)
  \/ \E w \in Workers : GrepLoop(w)
  \/ \E w \in Workers : GrepCheck(w)
  \/ \E w \in Workers : GrepSave(w)
  \/ \E w \in Workers : GrepResidue(w)
  \/ \E w \in Workers : FinishGrep(w)
  \/ \E w \in Workers : BinaryMatches(w)
  \/ \E w \in Workers : BinaryUnlock(w)
  \/ \E w \in Workers : Grepbuf(w)
  \/ \E w \in Workers : PrpendingLock(w)
  \/ \E w \in Workers : PrpendingLine(w)
  \/ \E w \in Workers : PrtextLock(w)
  \/ \E w \in Workers : PrtextContext(w)
  \/ \E w \in Workers : PrtextSelected(w)
  \/ \E w \in Workers : PrtextUnlock(w)
  \/ \E w \in Workers : GrepbufNext(w)
  \/ \E w \in Workers : WorkerCount(w)
  \/ \E w \in Workers : CountLock(w)
  \/ \E w \in Workers : CountWrite(w)
  \/ \E w \in Workers : ListLock(w)
  \/ \E w \in Workers : ListUnlock(w)
  \/ \E w \in Workers : Close(w)

\* ------------------------------------------------------------------ inputs
\* a regular file that opens and reads without error
RegFile(content) ==
  [fd |-> 3, openable |-> TRUE, is_output |-> FALSE, isreg |-> TRUE,
   content |-> content, failat |-> -1, closefail |-> FALSE, holes |-> {}]

\* standard input ("-"), a pipe
StdinPipe(content) ==
  [RegFile(content) EXCEPT !.fd = STDIN_FILENO, !.isreg = FALSE]

\* a file that cannot be opened
NoEntFile == [RegFile(<<>>) EXCEPT !.openable = FALSE]

\* the defaults of main before getopt
DefaultOptions ==
  [out_invert |-> FALSE, max_count |-> UnlimitedCount, out_before |-> -1,
   out_after |-> -1, binary_files |-> "binary", count_matches |-> FALSE,
   list_files |-> "none", exit_on_match |-> FALSE, suppress_errors |-> FALSE,
   out_line |-> FALSE, out_byte |-> FALSE, null_data |-> FALSE,
   matcher |-> "line", stdout_room |-> -1, num_threads |-> 1, rlim_cur |-> 4]

\* the option settings and file arguments of the runs with several workers
Two == [DefaultOptions EXCEPT !.num_threads = 2, !.rlim_cur = 2]

TextA == <<"m", "n">>
TextB == <<"x", "n">>
TextC == <<"x", "n", "m", "n">>
TextD == <<"m", "n", "x", "n", "x", "n", "m", "n">>
TextE == <<"m", "n", "z", "n", "m", "n">>
TextF == <<"m", "n", "x", "n", "z", "n">>
TextG == <<"e", "m", "n">>

SpecInputs ==
  << \* -A1 -B1, queue bound 1
    <<[Two EXCEPT !.out_before = 1, !.out_after = 1],
      <<RegFile(TextC), RegFile(TextD)>>>>,
    \* three files, queue bound 2
    <<[Two EXCEPT !.rlim_cur = 4],
      <<RegFile(TextA), RegFile(TextB), RegFile(TextA)>>>>,
    \* three files, queue bound 1, one worker
    <<[Two EXCEPT !.num_threads = 1],
      <<RegFile(TextA), RegFile(TextB), RegFile(TextA)>>>>,
    \* -c
    <<[Two EXCEPT !.count_matches = TRUE],
      <<RegFile(TextC), RegFile(TextB)>>>>,
    \* -l with an unreadable argument
    <<[Two EXCEPT !.list_files = "matching"],
      <<RegFile(TextA), NoEntFile, RegFile(TextB)>>>>,
    \* -L -s
    <<[Two EXCEPT !.list_files = "nonmatching", !.suppress_errors = TRUE],
      <<NoEntFile, RegFile(TextB)>>>>,
    \* -q
    <<[Two EXCEPT !.exit_on_match = TRUE],
      <<RegFile(TextB), RegFile(TextA)>>>>,
    \* -q with an unreadable argument, with and without a match
    <<[Two EXCEPT !.exit_on_match = TRUE], <<RegFile(TextA), RegFile(TextA)>>>>,
    <<[Two EXCEPT !.exit_on_match = TRUE], <<NoEntFile, RegFile(TextC)>>>>,
    <<[Two EXCEPT !.exit_on_match = TRUE, !.num_threads = 1],
      <<RegFile(TextB), NoEntFile>>>>,
    <<[Two EXCEPT !.exit_on_match = TRUE, !.num_threads = 1],
      <<RegFile(TextB), RegFile(TextB)>>>>,
    \* binary files
    <<Two, <<RegFile(TextE), RegFile(TextG)>>>>,
    <<[Two EXCEPT !.binary_files = "without-match"],
      <<RegFile(TextF), RegFile(TextB)>>>>,
    \* standard input
    <<Two, <<StdinPipe(TextA), RegFile(TextA)>>>>,
    \* -v -m 1
    <<[Two EXCEPT !.out_invert = TRUE, !.max_count = 1],
      <<RegFile(TextC), RegFile(TextB)>>>>,
    \* -m 1, two files with two selected lines each
    <<[Two EXCEPT !.max_count = 1], <<RegFile(TextD), RegFile(TextD)>>>>,
    \* -m -1
    <<[Two EXCEPT !.max_count = -1], <<RegFile(TextD)>>>>,
    \* -m 0
    <<[Two EXCEPT !.max_count = 0], <<RegFile(TextA)>>>>,
    \* read and close errors, an input that is also the output
    <<Two, <<[RegFile(TextA) EXCEPT !.failat = 0],
             [RegFile(TextD) EXCEPT !.failat = 2, !.closefail = TRUE]>>>>,
    <<Two, <<[RegFile(TextA) EXCEPT !.is_output = TRUE], RegFile(TextA)>>>>,
    \* five files, queue bound 2, as many workers as the queue holds
    <<[Two EXCEPT !.rlim_cur = 4],
      <<RegFile(<<>>), RegFile(<<>>), RegFile(<<>>), RegFile(<<>>),
        RegFile(<<>>)>>>>,
    \* -B 2 and a line with an encoding error two lines before a match
    <<[Two EXCEPT !.num_threads = 1, !.out_before = 2],
      <<RegFile(<<"e", "n", "x", "n", "m", "n">>)>>>>,
    \* -A 1, a file with a NUL byte and a match, and a text file
    <<[Two EXCEPT !.out_after = 1],
      <<RegFile(<<"z", "m", "n">>), RegFile(TextA)>>>>,
    \* -A 2 and a NUL byte in the buffer after the one with the match
    <<[Two EXCEPT !.num_threads = 1, !.out_after = 2],
      <<RegFile(<<"m", "n", "z", "n">>)>>>>,
    \* a read error, a close error and an unreadable argument before a file
    <<[Two EXCEPT !.num_threads = 1],
      <<[RegFile(TextD) EXCEPT !.failat = 2, !.closefail = TRUE], NoEntFile,
        RegFile(TextC)>>>> >>

Init == \E i \in DOMAIN SpecInputs : InitWith(SpecInputs[i][1], SpecInputs[i][2])

Spec == Init /\ [][Next]_vars

\* ---------------------------------------------------------------- fairness
\* the steps of main, and of worker w; a spurious wakeup is no step of the
\* thread's code
MainStep ==
  \/ MainStart
  \/ SearchArg
  \/ NextArg
  \/ Enqueue
  \/ FinishWorkqueue
  \/ Join
  \/ MainReturn
  \/ QueueLock(MainThread)
  \/ TsErrorLock(MainThread)
  \/ TsErrorWrite(MainThread)
  \/ TsErrorUnlock(MainThread)

WorkerStep(w) ==
  \/ WorkerStart(w) \/ QueueLock(w) \/ Dequeue(w)
  \/ TsErrorLock(w) \/ TsErrorWrite(w) \/ TsErrorUnlock(w)
  \/ GrepStart(w) \/ FillRead(w) \/ GrepLoop(w) \/ GrepCheck(w)
  \/ GrepSave(w) \/ GrepResidue(w) \/ FinishGrep(w)
  \/ BinaryMatches(w) \/ BinaryUnlock(w) \/ Grepbuf(w)
  \/ PrpendingLock(w) \/ PrpendingLine(w)
  \/ PrtextLock(w) \/ PrtextContext(w) \/ PrtextSelected(w) \/ PrtextUnlock(w)
  \/ GrepbufNext(w) \/ WorkerCount(w)
  \/ CountLock(w) \/ CountWrite(w) \/ ListLock(w) \/ ListUnlock(w)
  \/ Close(w) \/ Exit(w)

\* fair scheduling: a thread that can take a step eventually takes one, and
\* a thread that asks for workqueue.lock is not passed over forever by the
\* threads that take and release it
Fairness ==
  /\ WF_vars(MainStep)
  /\ \A w \in Workers : WF_vars(WorkerStep(w))
  /\ \A t \in Threads : SF_vars(QueueLock(t))

\* the runs explored under fairness: runs of two workers that block the
\* producer, end at an exit from a worker or meet errors, and one-worker
\* runs of the other kinds of scan
One == [Two EXCEPT !.num_threads = 1]

LiveInputs ==
  << <<Two, <<RegFile(<<>>), RegFile(TextA), RegFile(<<>>)>>>>,
     <<One, <<RegFile(TextA), RegFile(TextB), RegFile(TextA)>>>>,
     <<[One EXCEPT !.out_before = 1, !.out_after = 1],
       <<RegFile(TextC), RegFile(TextD)>>>>,
     <<[One EXCEPT !.count_matches = TRUE], <<RegFile(TextC), RegFile(TextB)>>>>,
     <<[Two EXCEPT !.list_files = "nonmatching", !.suppress_errors = TRUE],
       <<NoEntFile, RegFile(TextB)>>>>,
     <<[Two EXCEPT !.exit_on_match = TRUE], <<RegFile(TextB), RegFile(TextA)>>>>,
     <<One, <<RegFile(TextE), RegFile(TextG)>>>>,
     <<Two, <<[RegFile(TextA) EXCEPT !.failat = 0],
              [RegFile(TextB) EXCEPT !.closefail = TRUE]>>>> >>

LiveInit ==
  \E i \in DOMAIN LiveInputs : InitWith(LiveInputs[i][1], LiveInputs[i][2])

LiveSpec == LiveInit /\ [][Next]_vars /\ Fairness

\* ------------------------------------------------------------------ claims
\* the arguments that were linked into the queue, and those unlinked from it
Enqueued == {enq_log[i] : i \in 1..Len(enq_log)}
Dequeued == {deq_log[i].item : i \in 1..Len(deq_log)}

\* main has returned from its pthread_join loop (not from the max_count test)
MainJoined == pc[MainThread] = "returned" /\ opt.max_count # 0

\* C1: in every reachable state 0 <= num_files <= capacity, and num_files is
\* the number of items linked in the queue: nothing is inserted into a full
\* queue, nothing is removed from an empty one.
C1_QueueBounded ==
  /\ 0 <= num_files
  /\ num_files <= opt.max_queued_files
  /\ num_files = Len(queue)

\* C1 witness: the queue is full and the producer is blocked on producer_cond
C1_Witness ==
  /\ num_files = opt.max_queued_files
  /\ Len(queue) = opt.max_queued_files
  /\ MainThread \in producer_cond

\* C2: a dequeue_workfile that holds the lock returns NULL exactly when the
\* queue is empty and finish_workqueue was called, blocks exactly when the
\* queue is empty and not finished, and returns the head item exactly when
\* the queue is not empty; a blocked worker does not move, and a woken one
\* only re-tests.
C2_DequeueContract ==
  [][\A w \in Workers :
       /\ (pc[w] = "dequeue_locked" /\ pc'[w] # pc[w]) =>
            /\ (pc'[w] = "worker_returned") <=> (queue = <<>> /\ producer_done)
            /\ (pc'[w] = "dequeue_wait") <=> (queue = <<>> /\ ~producer_done)
            /\ (pc'[w] = "grep") <=> (queue # <<>>)
            /\ (pc'[w] = "grep") => (wf'[w] = Head(queue))
       /\ (w \in consumer_cond) => (pc'[w] = pc[w])
       /\ (pc[w] = "dequeue_wait" /\ pc'[w] # pc[w]) => (pc'[w] = "dequeue_locked")
    ]_vars

\* C2 witness: after items were handed out, one worker has been told NULL
\* while the other is still blocked in dequeue_workfile
C2_Witness ==
  /\ Len(deq_log) >= 2
  /\ \E w, v \in Workers : pc[w] = "worker_returned" /\ pc[v] = "dequeue_wait"

\* C3: the items leave the queue in the order they were enqueued.
C3_Fifo ==
  /\ Len(deq_log) <= Len(enq_log)
  /\ \A i \in 1..Len(deq_log) : deq_log[i].item = enq_log[i]

\* C3 witness: three items have left the queue, to different workers
C3_Witness ==
  /\ Len(deq_log) >= 3
  /\ \E i, j \in 1..Len(deq_log) : deq_log[i].w # deq_log[j].w

\* the part of C4 that is about dequeueing: no item is handed out twice, and
\* when main's joins are over none is left in the queue
DequeuedOnce ==
  /\ \A i, j \in 1..Len(deq_log) : deq_log[i].item = deq_log[j].item => i = j
  /\ Dequeued \subseteq Enqueued
  /\ MainJoined => Dequeued = Enqueued

\* whoever closed an enqueued item's descriptor is the worker that dequeued
\* the item, and did so once, after grep had returned for it
ClosedByOwner(a) ==
  /\ Len(closed[a]) <= 1
  /\ closed[a] # <<>> =>
       /\ scanned[a]
       /\ \E i \in 1..Len(deq_log) : deq_log[i] = [item |-> a, w |-> closed[a][1]]

InEnqueue ==
  pc[MainThread] \in {"enqueue_workfile", "enqueue_locked", "enqueue_wait"}

\* main's pthread_join loop is over with every item dequeued and every
\* worker returned (or the process has exited from a worker under -q)
JoinsComplete ==
  /\ ~Running
  /\ pc[MainThread] = "returned" =>
       /\ Dequeued = Enqueued
       /\ \A w \in Workers : w <= opt.num_threads => pc[w] = "worker_returned"

\* C5: under fair scheduling every enqueue_workfile call returns, and once
\* finish_workqueue has set producer_done every enqueued item is dequeued,
\* every worker returns and main's joins complete.
C5_QueueLiveness ==
  /\ InEnqueue ~> (pc[MainThread] = "next_arg" \/ ~Running)
  /\ producer_done ~> JoinsComplete

\* C5 witness: finish_workqueue has run while a worker that had scanned a
\* file was blocked on consumer_cond, and that worker has not yet re-tested
C5_Witness ==
  /\ producer_done
  /\ Running
  /\ deq_log # <<>>
  /\ \E w \in Workers : pc[w] = "dequeue_wait" /\ deq_log[Len(deq_log)].w = w

\* the positions between lock_output and unlock_output of a print sequence
PrintSequenceLabels ==
  {"ts_error_msg", "ts_error_unlock", "binary_unlock", "prpending_line",
   "prtext_context", "prtext_selected", "prtext_unlock", "count_printf",
   "list_unlock"}

\* the positions of a thread that is about to call lock_output
LockOutputLabels ==
  {"ts_error", "binary_matches", "prpending", "prtext_prpending", "prtext",
   "count_matches", "list_files"}

InPrintSequence(t) == pc[t] \in PrintSequenceLabels

\* the threads that write the records a step adds to a stream
Writers(old, new) == {new[i].th : i \in (Len(old) + 1)..Len(new)}

\* C6: while a thread is inside a print sequence (a prtext call, a prpending
\* call, a per-file summary or a diagnostic), whatever is written to stdout
\* or stderr is written by that thread.
C6_PrintSequenceAtomic ==
  [][\A t \in Threads :
       InPrintSequence(t) =>
         /\ Writers(stdout, stdout') \subseteq {t}
         /\ Writers(stderr, stderr') \subseteq {t}
    ]_vars

\* C6 witness: a thread is in the middle of a print sequence that has
\* written something while another thread waits in lock_output
C6_Witness ==
  \E t, u \in Threads :
    /\ t # u
    /\ InPrintSequence(t)
    /\ pc[u] \in LockOutputLabels
    /\ stdout # <<>>
    /\ stdout[Len(stdout)].th = t

\* C7 as stated: the stdout records of one input file form one contiguous
\* block.
C7_FileBlocksContiguous ==
  \A i, k \in 1..Len(stdout) :
    (i < k /\ stdout[i].f = stdout[k].f) =>
      \A j \in i..k : stdout[j].f = stdout[i].f

\* C8: no thread holds output_lock and workqueue.lock together, asks for
\* one while it holds the other, or waits on a queue condition variable
\* while it holds output_lock.
C8_LocksDisjoint ==
  \A t \in Threads :
    /\ ~(out_owner = t /\ qlock = t)
    /\ out_owner = t =>
         /\ t \notin consumer_cond \cup producer_cond
         /\ pc[t] \notin {"enqueue_workfile", "dequeue_workfile",
                          "finish_workqueue", "enqueue_wait", "dequeue_wait"}
    /\ qlock = t => pc[t] \notin LockOutputLabels

\* C8 witness: both mutexes are held, by different threads
C8_Witness ==
  /\ qlock # NoThread
  /\ out_owner # NoThread
  /\ qlock # out_owner

\* the selected lines written to stdout for argument a
SelectedEmitted(a) ==
  Cardinality({i \in 1..Len(stdout) : stdout[i].f = a /\ stdout[i].k = "sel"})

\* C9 as stated: for every file the selected lines emitted, and the count
\* grep returns, are at most max_count (no line at all under a max_count
\* below zero).
C9_MaxCountBound ==
  /\ \A a \in 1..Len(args) : SelectedEmitted(a) <= Max(0, opt.max_count)
  /\ \A w \in Workers :
       pc[w] = "worker_count" => loc[w].count <= Max(0, opt.max_count)

\* C10 as stated: without an error and without exit-on-match, main returns 0
\* if and only if some file produced a selected line, and 1 otherwise.
C10_ExitStatus ==
  (pc[MainThread] = "returned" /\ ~errseen /\ ~opt.exit_on_match) =>
    /\ exit_code \in {EXIT_SUCCESS, EXIT_FAILURE}
    /\ (exit_code = EXIT_SUCCESS) <=> (\E a \in 1..Len(args) : selected[a] > 0)

\* ------------------------------------------------------------------- C11
MainReturned == pc[MainThread] = "returned"

\* C11 as stated: when main returns, the exit code is 2 exactly when a
\* per-file error occurred that -s did not suppress.
C11_Original ==
  MainReturned =>
    (exit_code = EXIT_TROUBLE <=> (failed # {} /\ ~opt.suppress_errors))

\* C11: when main returns, the exit code is 2 exactly when a per-file error
\* (a failed open, read or close, or an input that is also the output)
\* occurred, whether or not -s suppressed its message.
C11_ExitTrouble ==
  MainReturned => (exit_code = EXIT_TROUBLE <=> failed # {})

\* main has returned 2 after an error whose message -s suppressed
C11_Witness ==
  /\ MainReturned
  /\ opt.suppress_errors
  /\ failed # {}
  /\ stderr = <<>>
  /\ exit_code = EXIT_TROUBLE

\* ------------------------------------------------------------------- C12
Exited == exit_code # NoExit
SomeSelected == \E a \in 1..Len(args) : selected[a] > 0

\* C12: under -q nothing is ever written to standard output; a worker that
\* has found a first selected line is at the point of grepbuf where its
\* next step exits the process, and that exit is with status 0; when no
\* file matches the process exits with 2 if an error was seen and with 1
\* otherwise.
C12_QuietExit ==
  opt.exit_on_match =>
    /\ stdout = <<>>
    /\ \A a \in 1..Len(args) :
         selected[a] > 0 =>
           \E w \in Workers : wf[w] = a /\ pc[w] = "grepbuf_prtext_done"
    /\ Exited =>
         exit_code = IF SomeSelected THEN EXIT_SUCCESS
                     ELSE IF failed # {} THEN EXIT_TROUBLE
                     ELSE EXIT_FAILURE

\* -q has exited with 0 at a first match although an error had been seen
C12_Witness ==
  /\ opt.exit_on_match
  /\ exit_code = EXIT_SUCCESS
  /\ SomeSelected
  /\ errseen
  /\ ~MainReturned

\* ------------------------------------------------------------------- C13
\* the files for which grep has returned to worker w
ProcessedBy(w) ==
  {deq_log[i].item : i \in {j \in 1..Len(deq_log) : deq_log[j].w = w}}
    \cap {a \in 1..Len(args) : counts[a] # -1}

\* the workers main has joined so far
JoinedWorkers == 1..(joini - 1)

\* C13 as stated: a worker's return value is true exactly when every file
\* it processed produced at least one match, and main's status is the AND
\* of the return values.
C13_Original ==
  /\ \A w \in Workers :
       pc[w] = "worker_returned" =>
         (status[w] <=> \A a \in ProcessedBy(w) : counts[a] > 0)
  /\ mstatus = IF \A w \in JoinedWorkers : status[w] THEN 1 ELSE 0

\* C13: a worker's status is true exactly when grep returned a count of 0
\* for every file the worker has processed (so it is true for a worker that
\* processed none), and main's status is 1 exactly when the status of every
\* worker joined so far is true.
C13_WorkerStatus ==
  /\ \A w \in Workers :
       status[w] <=> \A a \in ProcessedBy(w) : counts[a] = 0
  /\ mstatus = IF \A w \in JoinedWorkers : status[w] THEN 1 ELSE 0

\* main has joined a worker that returns false after it processed a file
\* with a match and a file without one
C13_Witness ==
  /\ MainJoined
  /\ mstatus = 0
  /\ \E v \in JoinedWorkers :
       /\ ~status[v]
       /\ \E a, b \in ProcessedBy(v) : counts[a] > 0 /\ counts[b] = 0

\* ------------------------------------------------------------------- C14
\* What a scan of the whole content has to find: the lines of the content
\* (offsets of their first bytes; the last line need not end in eolbyte),
\* and those the pattern selects.
LineStarts(content) ==
  {s \in 0..(Len(content) - 1) : s = 0 \/ content[s] = eolbyte}

LineEnd(content, s) ==
  IF \E j \in (s + 1)..Len(content) : content[j] = eolbyte
  THEN CHOOSE j \in (s + 1)..Len(content) :
         /\ content[j] = eolbyte
         /\ \A k \in (s + 1)..(j - 1) : content[k] # eolbyte
  ELSE Len(content)

LineSelected(content, s, invert) ==
  (\E k \in (s + 1)..LineEnd(content, s) : content[k] = "m") # invert

RefSelected(content, invert) ==
  {s \in LineStarts(content) : LineSelected(content, s, invert)}

IsText(content) == \A i \in 1..Len(content) : content[i] \notin {"z", "e"}

ErrorFree(a) == \A e \in failed : e[1] # a
Searchable(a) == <<a, "open">> \notin failed /\ <<a, "output">> \notin failed

\* C14: the process ends only by the return of main or by the exit of -q at
\* a match, never at a per-file error.  When main has joined the workers,
\* every argument that could be opened and is not the output was enqueued,
\* dequeued, scanned until grep returned and closed, even if it had a read
\* error; and grep found a selected line in every error-free text file
\* exactly when the file has one.
C14_ErrorsDoNotAbort ==
  /\ Exited => MainReturned \/ (opt.exit_on_match /\ SomeSelected)
  /\ MainJoined =>
       \A a \in 1..Len(args) :
         /\ Searchable(a) =>
              /\ a \in Enqueued /\ a \in Dequeued
              /\ scanned[a] /\ counts[a] # -1
              /\ args[a].fd # STDIN_FILENO => Len(closed[a]) = 1
         /\ ErrorFree(a) /\ IsText(args[a].content) =>
              (counts[a] > 0 <=>
                 RefSelected(args[a].content, opt.out_invert) # {})

\* after a read error and a close error on one file and a failed open of
\* another, a later file has been scanned and its selected line written
C14_Witness ==
  /\ MainJoined
  /\ errseen
  /\ \E a, b, c \in 1..Len(args) :
       /\ a < b /\ b < c
       /\ <<a, "read">> \in failed /\ <<a, "close">> \in failed
       /\ <<b, "open">> \in failed
       /\ ErrorFree(c) /\ counts[c] > 0
       /\ \E i \in 1..Len(stdout) : stdout[i].f = c /\ stdout[i].k = "sel"

\* ------------------------------------------------------------------- C15
\* search_file has opened argument a (standard input is not opened)
Opened(a) ==
  /\ args[a].fd # STDIN_FILENO
  /\ args[a].openable
  /\ a < argi \/ (a = argi /\ pc[MainThread] # "search_command_line_arg")

\* the arguments whose descriptor is open: opened and not yet closed
OpenDescriptors ==
  {a \in 1..Len(args) : Opened(a) /\ closed[a] = <<>>}

\* the work items: waiting to be enqueued, queued, or with a worker
WorkItems ==
  {queue[i] : i \in 1..Len(queue)}
    \cup {wf[w] : w \in {v \in Workers : wf[v] # 0 /\ closed[wf[v]] = <<>>}}

\* C15: every work item other than standard input holds an open descriptor
\* until its worker closes it, and, when the descriptor limit rlim_cur has
\* room for a full queue, the dispatcher and one worker, the number of
\* descriptors open for work items never exceeds it, whatever the number
\* of worker threads.
C15_DescriptorsBounded ==
  /\ \A a \in WorkItems : args[a].fd # STDIN_FILENO => a \in OpenDescriptors
  /\ opt.max_queued_files + 2 <= opt.rlim_cur =>
       Cardinality(OpenDescriptors) <= opt.rlim_cur

\* ------------------------------------------- the runs that scan one file
\* Bounds of the files and options of the runs with one file and one worker
MaxLines == 5
MaxContext == 2

\* the byte strings of at most n bytes over an alphabet
Bytes(n, alphabet) == UNION {[1..k -> alphabet] : k \in 0..n}

\* the files of at most n one-byte lines, each line ended by eolbyte
LineFiles(n) ==
  {[i \in 1..(2 * Len(l)) |-> IF i % 2 = 1 THEN l[(i + 1) \div 2] ELSE "n"] :
     l \in Bytes(n, {"m", "x"})}

OneWorker == [DefaultOptions EXCEPT !.rlim_cur = 2]

\* -A and -B over every file of at most MaxLines lines, and with -v over
\* every file of at most MaxLines - 1 lines, besides the runs of Init
ContextInit ==
  \/ Init
  \/ \E c \in LineFiles(MaxLines), b, a \in -1..MaxContext :
       InitWith([OneWorker EXCEPT !.out_before = b, !.out_after = a],
                <<RegFile(c)>>)
  \/ \E c \in LineFiles(MaxLines - 1), b, a \in -1..MaxContext :
       InitWith([OneWorker EXCEPT !.out_before = b, !.out_after = a,
                                  !.out_invert = TRUE],
                <<RegFile(c)>>)

ContextSpec == ContextInit /\ [][Next]_vars

\* ------------------------------------------------------------------- C16
\* the lines of argument a written to standard output, in output order
Emitted(a) == SelectSeq(stdout, LAMBDA r : r.f = a /\ r.k \in {"sel", "ctx"})

\* the number of the line of the content that starts at offset off
LineNo(content, off) == Cardinality({s \in LineStarts(content) : s <= off})

\* C16: the lines written for a file are in input order and none is written
\* twice (their offsets increase strictly), at any moment of the scan and
\* whatever the buffer refills; and when the scan of the file is over,
\* every context line is one of the out_before lines before or of the
\* out_after lines after a line that the search selects, and that selected
\* line was written unless the file has NUL bytes or encoding errors (which
\* suppress selected lines).
C16_ContextBounded ==
  \A a \in 1..Len(args) :
    LET e == Emitted(a)
        content == args[a].content
        no(off) == LineNo(content, off)
    IN /\ \A i \in 1..(Len(e) - 1) : e[i].off < e[i + 1].off
       /\ scanned[a] =>
            \A i \in 1..Len(e) :
              e[i].k = "ctx" =>
                \E s \in RefSelected(content, opt.out_invert) :
                  /\ \/ \E j \in 1..Len(e) : e[j].k = "sel" /\ e[j].off = s
                     \/ ~IsText(content)
                  /\ \/ 0 < no(s) - no(e[i].off)
                        /\ no(s) - no(e[i].off) <= opt.out_before
                     \/ 0 < no(e[i].off) - no(s)
                        /\ no(e[i].off) - no(s) <= opt.out_after

\* a scan over several refills has written one line of context before and
\* one after a selected line, and left out the lines further away
C16_Witness ==
  /\ opt.out_before = 1 /\ opt.out_after = 1
  /\ scanned[1]
  /\ Len(args[1].content) = 2 * MaxLines
  /\ LET e == Emitted(1)
     IN /\ Len(e) = 3
        /\ e[1].k = "ctx" /\ e[2].k = "sel" /\ e[3].k = "ctx"
        /\ e[1].off = 2 /\ e[3].off = 6

\* ------------------------------------------------------------------- C17
\* everything written for argument a, group separators included
Written(a) == SelectSeq(stdout, LAMBDA r : r.f = a)

\* C17: with -A, -B or -C, between two selected lines of a file written
\* one after the other there is exactly one group separator when more than
\* out_before + out_after lines of the input lie between them (a negative
\* value counting as 0), and none otherwise.
C17_GroupSeparators ==
  0 <= opt.out_before \/ 0 <= opt.out_after =>
    \A a \in 1..Len(args) :
      LET e == Written(a)
          no(i) == LineNo(args[a].content, e[i].off)
          seps(i, j) == Cardinality({k \in (i + 1)..(j - 1) : e[k].k = "sep"})
      IN \A i, j \in 1..Len(e) :
           /\ i < j
           /\ e[i].k = "sel" /\ e[j].k = "sel"
           /\ \A k \in (i + 1)..(j - 1) : e[k].k # "sel"
           => seps(i, j) =
                IF no(j) - no(i) - 1 > Max(0, opt.out_before) + Max(0, opt.out_after)
                THEN 1 ELSE 0

\* two selected lines three lines apart, written with one line of context
\* each and one separator between the groups
C17_Witness ==
  /\ opt.out_before = 1 /\ opt.out_after = 1
  /\ scanned[1]
  /\ LET e == Written(1)
     IN /\ Len(e) = 5
        /\ e[1].k = "sel" /\ e[2].k = "ctx" /\ e[3].k = "sep"
        /\ e[4].k = "ctx" /\ e[5].k = "sel"
        /\ e[1].off = 0 /\ e[5].off = 8

\* ------------------------------------------- the runs that select lines
MaxBytes == 4

\* -v, -c and -m over every text file of at most MaxBytes bytes (with empty
\* lines and with a last line that has no eolbyte), -c over files with a
\* NUL byte or an encoding error, besides the runs of Init
SelectInit ==
  \/ Init
  \/ \E c \in Bytes(MaxBytes, {"m", "x", "n"}), inv, cm \in BOOLEAN,
        mc \in {UnlimitedCount, 1, 2} :
       InitWith([OneWorker EXCEPT !.out_invert = inv, !.count_matches = cm,
                                  !.max_count = mc],
                <<RegFile(c)>>)
  \/ \E c \in {TextE, TextF, TextG}, inv \in BOOLEAN :
       InitWith([OneWorker EXCEPT !.out_invert = inv, !.count_matches = TRUE],
                <<RegFile(c)>>)

SelectSpec == SelectInit /\ [][Next]_vars

\* ------------------------------------------------------------------- C18
\* the offsets of the selected lines of argument a that were written
SelectedLines(a) ==
  {stdout[i].off : i \in {j \in 1..Len(stdout) :
                           stdout[j].f = a /\ stdout[j].k = "sel"}}

\* a plain search: lines are written, without context and without -m
PlainSearch ==
  /\ ~opt.count_matches /\ opt.list_files = "none" /\ ~opt.exit_on_match
  /\ opt.max_count = UnlimitedCount
  /\ opt.out_before < 0 /\ opt.out_after < 0

\* C18: after a plain search of an error-free text file, the lines written
\* are the lines the pattern selects when -v is not given and the lines it
\* does not select when -v is given: the lines written under one setting
\* of -v are disjoint from the lines written under the other, and the two
\* together are all the lines of the file.
C18_InversionDuality ==
  PlainSearch =>
    \A a \in 1..Len(args) :
      scanned[a] /\ ErrorFree(a) /\ IsText(args[a].content) =>
        LET content == args[a].content
            other == RefSelected(content, ~opt.out_invert)
        IN /\ SelectedLines(a) = RefSelected(content, opt.out_invert)
           /\ SelectedLines(a) \cap other = {}
           /\ SelectedLines(a) \cup other = LineStarts(content)

\* -v has written an empty line and a last line without eolbyte, and left
\* out the line between them, which the pattern selects
C18_Witness ==
  /\ PlainSearch /\ opt.out_invert
  /\ scanned[1]
  /\ args[1].content = <<eolbyte, "m", eolbyte, "x">>
  /\ SelectedLines(1) = {0, 3}

\* ------------------------------------------------------------------- C19
\* the number of lines a scan of the whole content selects, up to max_count
\* (a negative max_count never runs out: every line the pattern selects is
\* counted, and with -v none is)
RefCount(content, invert, mc) ==
  LET n == Cardinality(RefSelected(content, invert))
  IN IF mc < 0 THEN (IF invert THEN 0 ELSE n) ELSE Min(mc, n)

\* the numbers -c has printed for argument a
CountPrinted(a) ==
  {stdout[i].ln : i \in {j \in 1..Len(stdout) :
                          stdout[j].f = a /\ stdout[j].k = "count"}}

\* a search that reports lines or their count: no -l, -L or -q, no error
Reported(a) ==
  /\ opt.list_files = "none" /\ ~opt.exit_on_match
  /\ Len(closed[a]) = 1 /\ ErrorFree(a)

\* the files whose lines a scan counts as they stand: text files, and
\* without -v also files with NUL bytes or encoding errors (with -v the
\* NUL bytes, which the scan turns into line ends, add lines)
CountedAsRead(a) == IsText(args[a].content) \/ ~opt.out_invert

MaxBinaryBytes == 5

\* every file of at most MaxBinaryBytes bytes with matching bytes, NUL
\* bytes and line ends, with and without -v and -m, besides the runs of
\* Init
BinaryInit ==
  \/ Init
  \/ \E c \in Bytes(MaxBinaryBytes, {"m", "z", "n"}), inv \in BOOLEAN,
        mc \in {UnlimitedCount, 1, 2} :
       InitWith([OneWorker EXCEPT !.out_invert = inv, !.max_count = mc],
                <<RegFile(c)>>)

BinarySpec == BinaryInit /\ [][Next]_vars

\* ------------------------------------------------------------------- C20
\* the offset of the first NUL byte of a content that has one
FirstNul(content) ==
  CHOOSE o \in 0..(Len(content) - 1) :
    content[o + 1] = "z" /\ \A k \in 1..o : content[k] # "z"

\* the content has its first NUL byte in line N and a line M > N that the
\* search selects, and no encoding error
NulBeforeMatch(content, invert) ==
  /\ \E i \in 1..Len(content) : content[i] = "z"
  /\ \A i \in 1..Len(content) : content[i] # "e"
  /\ \E s \in RefSelected(content, invert) : s > FirstNul(content)

\* the selected lines of the content that start before its first NUL byte
SelectedBeforeNul(content, invert) ==
  {s \in RefSelected(content, invert) : s < FirstNul(content)}

\* a search with binary-files=binary that writes lines: no -c, -l, -L, -q
BinarySearch(a) ==
  /\ opt.binary_files = "binary"
  /\ ~opt.count_matches /\ opt.list_files = "none" /\ ~opt.exit_on_match
  /\ Len(closed[a]) = 1 /\ ErrorFree(a)

BinaryLines(a) ==
  {i \in 1..Len(stdout) : stdout[i].f = a /\ stdout[i].k = "bin"}

\* C20 as stated: when the first NUL byte is in line N and a line M > N is
\* selected, "Binary file ... matches" is written exactly once for the
\* file and no selected line of the file is written.
C20_Original ==
  \A a \in 1..Len(args) :
    BinarySearch(a) /\ NulBeforeMatch(args[a].content, opt.out_invert) =>
      /\ Cardinality(BinaryLines(a)) = 1
      /\ SelectedLines(a) = {}

\* C20: when the first NUL byte is in line N and a line M > N is selected,
\* and max_count is greater than the number of selected lines before the
\* NUL byte, "Binary file ... matches" is written exactly once for the
\* file, after everything else written for it, and every selected line
\* that is written starts before the NUL byte: such lines are written when
\* they were scanned in a buffer before the one that holds the NUL byte.
C20_BinaryMatches ==
  \A a \in 1..Len(args) :
    /\ BinarySearch(a) /\ NulBeforeMatch(args[a].content, opt.out_invert)
    /\ Cardinality(SelectedBeforeNul(args[a].content, opt.out_invert))
         < opt.max_count
    => /\ Cardinality(BinaryLines(a)) = 1
       /\ \A i \in BinaryLines(a), j \in 1..Len(stdout) :
            stdout[j].f = a => j <= i
       /\ SelectedLines(a)
            \subseteq SelectedBeforeNul(args[a].content, opt.out_invert)

\* the NUL byte was found after a refill: the selected line before it was
\* written, the selected line after it was not, and the file was reported
\* as a binary file that matches
C20_Witness ==
  /\ BinarySearch(1) /\ ~opt.out_invert
  /\ args[1].content = <<"m", eolbyte, "z", eolbyte, "m">>
  /\ SelectedLines(1) = {0}
  /\ Cardinality(BinaryLines(1)) = 1

\* ------------------------------------------------------------------- C21
\* C21: when binary_files is not text, once prline has met a line with an
\* encoding error in the scan of a file (the line is not written and
\* encoding_error_output is set), no selected or context line of that file
\* is written any more, and when the worker closes the file exactly one
\* "Binary file ... matches" line has been written for it.
C21_EncodingErrorQuiet ==
  [][\A w \in Workers :
       ctx[w].encoding_error_output /\ opt.binary_files # "text" =>
         /\ ctx'[w].encoding_error_output =>
              Emitted(wf[w])' = Emitted(wf[w])
         /\ pc[w] = "close" /\ ~opt.out_quiet =>
              Cardinality(BinaryLines(wf[w])) = 1]_vars

\* ------------------------------------- the runs that number their lines
MaxNulBytes == 6

\* -n -b with and without -v and context over every text file of at most
\* MaxBytes bytes, and -z -n -b over every file of at most MaxNulBytes
\* bytes whose lines end in NUL, besides the runs of Init
NumberInit ==
  \/ Init
  \/ \E c \in Bytes(MaxBytes, {"m", "x", "n"}), b, a \in {-1, 1},
        inv \in BOOLEAN :
       InitWith([OneWorker EXCEPT !.out_line = TRUE, !.out_byte = TRUE,
                                  !.out_before = b, !.out_after = a,
                                  !.out_invert = inv],
                <<RegFile(c)>>)
  \/ \E c \in Bytes(MaxNulBytes, {"m", "z"}), b \in {-1, 1} :
       InitWith([OneWorker EXCEPT !.out_line = TRUE, !.out_byte = TRUE,
                                  !.null_data = TRUE, !.out_before = b],
                <<RegFile(c)>>)

NumberSpec == NumberInit /\ [][Next]_vars

\* ------------------------------------------------------------------- C22
\* the number of end-of-line bytes of the content before offset off
EolsBefore(content, off) ==
  Cardinality({i \in 1..off : content[i] = eolbyte})

\* the records of stdout that are lines of a file
LineRecords == {i \in 1..Len(stdout) : stdout[i].k \in {"sel", "ctx"}}

\* C22: with -n, the line number written with every selected or context
\* line is 1 plus the number of end-of-line bytes of the input before the
\* first byte of the line.
C22_LineNumbers ==
  opt.out_line =>
    \A i \in LineRecords :
      stdout[i].ln = 1 + EolsBefore(args[stdout[i].f].content, stdout[i].off)

\* ------------------------------------------------------------------- C23
\* C23: with -b, the byte offset written with every selected or context
\* line is the number of bytes of the input before the first byte of the
\* line.
C23_ByteOffsets ==
  opt.out_byte => \A i \in LineRecords : stdout[i].bo = stdout[i].off

\* ------------------- the runs on a file with and without its last eolbyte
\* one worker searches a text file whose last line has no end-of-line
\* byte and then the same file with the byte appended, with and without
\* -v, context and -m 1, and with -z for lines that end in NUL; besides
\* the runs of Init
PairInit ==
  \/ Init
  \/ \E c \in {d \in Bytes(MaxBytes, {"m", "x", "n"}) :
                 d # <<>> /\ d[Len(d)] # "n"},
        n \in {-1, 1}, inv \in BOOLEAN, mc \in {UnlimitedCount, 1} :
       InitWith([OneWorker EXCEPT !.out_before = n, !.out_after = n,
                                  !.out_invert = inv, !.max_count = mc],
                <<RegFile(c), RegFile(c \o <<"n">>)>>)
  \/ \E c \in {d \in Bytes(MaxBytes, {"m", "z"}) :
                 d # <<>> /\ d[Len(d)] # "z"},
        inv \in BOOLEAN :
       InitWith([OneWorker EXCEPT !.null_data = TRUE, !.out_invert = inv],
                <<RegFile(c), RegFile(c \o <<"z">>)>>)

PairSpec == PairInit /\ [][Next]_vars

\* ------------------------------------------------------------------- C24
\* the lines written for argument a: their kinds and offsets, in order
LinesOf(a) ==
  [i \in 1..Len(Emitted(a)) |-> <<Emitted(a)[i].k, Emitted(a)[i].off>>]

\* arguments a and b are the same file but for the end-of-line byte that b
\* has after the last line, and the scans of both are over
SameButLastEol(a, b) ==
  /\ args[a].content # <<>>
  /\ args[a].content[Len(args[a].content)] # eolbyte
  /\ args[b].content = args[a].content \o <<eolbyte>>
  /\ Len(closed[a]) = 1 /\ Len(closed[b]) = 1
  /\ ErrorFree(a) /\ ErrorFree(b)

\* C24: the selected lines and context lines written for a file whose last
\* line has no end-of-line byte, and the count grep returns for it, are
\* those of the same file with the end-of-line byte appended.
C24_LastLineComplete ==
  \A a, b \in 1..Len(args) :
    SameButLastEol(a, b) =>
      LinesOf(a) = LinesOf(b) /\ counts[a] = counts[b]

\* both files were searched with context: the last line, which has no
\* end-of-line byte in the first file, was selected in both, after a line
\* of context
C24_Witness ==
  /\ Len(args) = 2 /\ SameButLastEol(1, 2)
  /\ args[1].content = <<"x", eolbyte, "m">>
  /\ opt.out_before = 1
  /\ LinesOf(1) = <<<<"ctx", 0>>, <<"sel", 2>>>>
  /\ LinesOf(2) = LinesOf(1)

\* ------------------------------------------------------------------- C25
\* C25: under -q a worker is at the exit call of grepbuf (after prtext has
\* returned), and has made that call, only when it does not hold the
\* output lock: prtext has released it, so the lock depth of the exiting
\* thread is 0.
C25_ExitAfterUnlock ==
  opt.exit_on_match =>
    \A w \in Workers :
      pc[w] = "grepbuf_prtext_done" =>
        out_owner # w /\ (out_depth > 0 => out_owner \in Threads \ {w})

\* a worker has exited the process at its first match, the output lock free
C25_Witness ==
  /\ opt.exit_on_match
  /\ exit_code = EXIT_SUCCESS /\ ~MainReturned
  /\ \E w \in Workers : pc[w] = "grepbuf_prtext_done" /\ selected[wf[w]] > 0
  /\ out_owner = NoThread /\ out_depth = 0

\* ------------------------------------------------------------------- C26
\* worker v was in the scan of a file when the process ended, and was not
\* the worker whose match ended it
Interrupted(v) ==
  /\ wf[v] # 0 /\ counts[wf[v]] = -1
  /\ ~(pc[v] = "grepbuf_prtext_done" /\ selected[wf[v]] > 0)

\* the first n lines of the content that the search selects
FirstSelected(content, invert, n) ==
  LET sel == RefSelected(content, invert)
  IN {s \in sel : Cardinality({t \in sel : t <= s}) <= n}

\* C26 as stated: when a worker stops because of -q or --max-count, no
\* other worker is interrupted: when the process has ended, no other worker
\* was in a scan and no file was left in the queue.
C26_Original ==
  Exited => queue = <<>> /\ \A v \in Workers : ~Interrupted(v)

\* C26: a worker that stops because of --max-count (without -q) stops the
\* scan of its own file only: every error-free text file of the run,
\* whichever worker scanned it and whatever the other files selected, has
\* its first max_count selected lines written and is closed once, and the
\* process ends by the return of main, after every worker was joined.
C26_LocalStop ==
  (~opt.exit_on_match /\ 0 < opt.max_count) =>
    /\ \A a \in 1..Len(args) :
         /\ Reported(a) /\ ~opt.count_matches
         /\ IsText(args[a].content)
         => SelectedLines(a) =
              FirstSelected(args[a].content, opt.out_invert, opt.max_count)
    /\ Exited => MainReturned /\ \A v \in Workers : ~Interrupted(v)

\* -m 1: two workers have each stopped at the first of the two selected
\* lines of their file, and both files are closed
C26_Witness ==
  /\ ~opt.exit_on_match /\ opt.max_count = 1
  /\ Len(args) = 2 /\ Reported(1) /\ Reported(2)
  /\ \A a \in 1..2 :
       /\ Cardinality(RefSelected(args[a].content, opt.out_invert)) = 2
       /\ SelectedLines(a) = {0}
  /\ closed[1] # closed[2]

\* ------------------------------------------------------------------- C27
\* worker w is in the scan of a file: grep has set ctx->outleft and has not
\* returned
InScan(w) == wf[w] # 0 /\ counts[wf[w]] = -1 /\ pc[w] # "grep"

\* C27: during the scan of a file outleft is never negative, for every
\* max_count; and from a state of the scan in which outleft and pending are
\* both 0 no step writes a further selected or context line of the file.
C27_OutleftNonNegative ==
  /\ [](\A w \in Workers : InScan(w) => ctx[w].outleft >= 0)
  /\ [][\A w \in Workers :
          InScan(w) /\ ctx[w].outleft = 0 /\ ctx[w].pending = 0 =>
            Emitted(wf[w])' = Emitted(wf[w])]_vars

\* ------------------------------------------------------------------- C28
\* the offset in the file at which the output written so far for argument
\* a ends: the start of the line after the last line written, or NULL
PrevOutputEnd(a) ==
  IF Emitted(a) = <<>> THEN NULL
  ELSE LineEnd(args[a].content, Emitted(a)[Len(Emitted(a))].off)

\* the group separators written so far
Separators == {i \in 1..Len(stdout) : stdout[i].k = "sep"}

\* The step of prtext that finds the start of a region (the selected lines
\* and their leading context) writes a group separator exactly when a
\* context length was configured, used is true and the region does not
\* start where the output of the file ended.
SeparatorRule(configured) ==
  \A w \in Workers :
    pc[w] = "prtext" /\ pc'[w] # "prtext" /\ ~ctx[w].out_quiet =>
      LET start == At(ctx[w].org, loc'[w].pt_p)
          due == configured /\ used /\ start # PrevOutputEnd(wf[w])
      IN IF due
         THEN /\ Len(stdout') = Len(stdout) + 1
              /\ stdout'[Len(stdout')].k = "sep"
         ELSE stdout' = stdout

\* C28 as stated: the separator is written exactly when before > 0 or
\* after > 0 was configured, used is true and the region is not adjacent
\* to the previous output.
C28_Original ==
  /\ [](~(0 < opt.out_before \/ 0 < opt.out_after) => Separators = {})
  /\ [][SeparatorRule(0 < opt.out_before \/ 0 < opt.out_after)]_vars

\* C28: before a region that a scan writes, a group separator is written
\* exactly when -A, -B or -C was given (with any length, 0 included), used
\* is true and the region, leading context included, does not start where
\* the previous output of the file ended; when none of them was given no
\* separator is ever written.
C28_SeparatorWhenDue ==
  /\ [](~(0 <= opt.out_before \/ 0 <= opt.out_after) => Separators = {})
  /\ [][SeparatorRule(0 <= opt.out_before \/ 0 <= opt.out_after)]_vars

\* -A 0: a separator stands between two selected lines that are not
\* adjacent
C28_Witness ==
  /\ opt.out_after = 0 /\ opt.out_before < 0
  /\ Len(stdout) = 3
  /\ stdout[1].k = "sel" /\ stdout[2].k = "sep" /\ stdout[3].k = "sel"
  /\ stdout[3].off > LineEnd(args[1].content, stdout[1].off)

\* ------------------------------------------------------------------- C29
\* grep has returned for argument a after a scan that read the whole file
\* and probed it for NUL bytes, and the file has a NUL byte: the scan has
\* detected it
NulDetected(a) ==
  /\ counts[a] # -1 /\ ErrorFree(a)
  /\ ~opt.null_data /\ opt.max_count = UnlimitedCount /\ ~opt.done_on_match
  /\ \E i \in 1..Len(args[a].content) : args[a].content[i] = "z"

\* C29: with binary_files=without-match, a file in which a NUL byte is
\* detected is abandoned with nothing written: no selected or context line
\* of the file is on standard output and grep returns 0 for it, in
\* whichever buffer of the file the NUL byte is first seen.
C29_WithoutMatchAbandons ==
  opt.binary_files = "without-match" =>
    \A a \in 1..Len(args) :
      NulDetected(a) => Emitted(a) = <<>> /\ counts[a] = 0

\* ------------------------------------------------------------------- C30
\* Largest max_count (-m) of the runs with trailing context.
MaxCount == 2

\* -m and -A over every file of at most MaxLines lines, and with -v over
\* every file of at most MaxLines - 1 lines, besides the runs of Init
TrailInit ==
  \/ Init
  \/ \E c \in LineFiles(MaxLines), a \in 0..MaxContext, mc \in 1..MaxCount :
       InitWith([OneWorker EXCEPT !.out_after = a, !.max_count = mc],
                <<RegFile(c)>>)
  \/ \E c \in LineFiles(MaxLines - 1), a \in 0..MaxContext, mc \in 1..MaxCount :
       InitWith([OneWorker EXCEPT !.out_after = a, !.max_count = mc,
                                  !.out_invert = TRUE],
                <<RegFile(c)>>)

TrailSpec == TrailInit /\ [][Next]_vars

\* the lines of argument a written from beyond the line at offset s
WrittenAfter(a, s) ==
  {i \in 1..Len(stdout) :
     stdout[i].f = a /\ stdout[i].k \in {"sel", "ctx"} /\ stdout[i].off > s}

\* C30: when a file has max_count selected lines or more, the lines written
\* from beyond the max_count-th selected line are trailing context only:
\* none of them is the next line that the search selects or a line after
\* it, and they are at most out_after.
C30_TrailingContextStops ==
  0 < opt.max_count =>
    \A a \in 1..Len(args) :
      LET content == args[a].content
          sel == RefSelected(content, opt.out_invert)
          reached == {s \in sel :
                        Cardinality({t \in sel : t <= s}) = opt.max_count}
      IN \A s \in reached :
           /\ \A i \in WrittenAfter(a, s) :
                /\ stdout[i].k = "ctx"
                /\ \A t \in sel : t > s => stdout[i].off < t
           /\ Cardinality(WrittenAfter(a, s)) <= Max(0, opt.out_after)

\* -m 1 -A 2: after the one selected line, one line of trailing context is
\* written and the scan is over: the line after it is selected
C30_Witness ==
  /\ opt.max_count = 1 /\ opt.out_after = 2 /\ ~opt.out_invert
  /\ args[1].content = <<"m", "n", "x", "n", "m", "n", "x", "n">>
  /\ counts[1] = 1
  /\ LinesOf(1) = <<<<"sel", 0>>, <<"ctx", 2>>>>

\* ------------------------------------------------------------------- C31
\* every file of at most MaxBytes bytes under both kinds of matcher, with
\* and without -v, with -m 1 and -m 2, besides the runs of Init
MatchInit ==
  \/ Init
  \/ \E c \in Bytes(MaxBytes, {"m", "x", "n"}), inv \in BOOLEAN,
        mt \in {"line", "empty"}, mc \in 1..MaxCount :
       InitWith([OneWorker EXCEPT !.out_invert = inv, !.matcher = mt,
                                  !.max_count = mc],
                <<RegFile(c)>>)

MatchSpec == MatchInit /\ [][Next]_vars

\* a turn of grepbuf's loop by worker w moves the scan forward: the end of
\* the match handed to prtext lies beyond p and not beyond lim, and the
\* next turn starts beyond p
ScanAdvances(w) ==
  /\ pc[w] = "grepbuf" /\ pc'[w] \in {"prtext", "prtext_prpending"} =>
       /\ loc'[w].gb_endp > loc[w].gb_p
       /\ loc'[w].gb_endp <= loc[w].gb_lim
  /\ pc[w] = "grepbuf" /\ pc'[w] = "grepbuf" /\ loc'[w] # loc[w] =>
       loc'[w].gb_p > loc[w].gb_p
  /\ pc[w] = "grepbuf_prtext_done" /\ pc'[w] = "grepbuf" =>
       loc'[w].gb_p > loc[w].gb_p

\* C31 as stated: for every matcher result, also a match of length zero,
\* each turn of grepbuf's loop moves the scan position strictly forward.
C31_Original == [][\A w \in Workers : ScanAdvances(w)]_vars

\* C31: with a matcher that reports whole lines (terminator included, so
\* of length 1 at least), each turn of grepbuf's loop moves the scan
\* position strictly forward and never beyond lim, so that the loop ends
\* after at most lim - beg turns.
C31_GrepbufAdvances ==
  [][opt.matcher = "line" => \A w \in Workers : ScanAdvances(w)]_vars

\* grepbuf has called prtext for the first line and is at the second line
\* of its buffer, after a turn that moved the scan forward by a whole line
C31_Witness ==
  /\ opt.matcher = "line"
  /\ \E w \in Workers :
       /\ pc[w] = "grepbuf" /\ selected[wf[w]] = 1
       /\ loc[w].gb_p > 0 /\ loc[w].gb_p = loc[w].gb_endp
       /\ loc[w].gb_p < loc[w].gb_lim

\* ------------------------------------------------------------------- C32
\* C32: in every state of a scan in which the context's out_quiet is true
\* its pending is 0, and no step taken from such a state writes a selected
\* or context line of the file.
C32_QuietNothingPending ==
  /\ [](\A w \in Workers :
          InScan(w) /\ ctx[w].out_quiet => ctx[w].pending = 0)
  /\ [][\A w \in Workers :
          InScan(w) /\ ctx[w].out_quiet =>
            Emitted(wf[w])' = Emitted(wf[w])]_vars

\* ------------------------------------------------------------------- C33
\* C33: a group separator is never the first thing written to standard
\* output, whatever the interleaving of the workers.
C33_SeparatorNotFirst == stdout # <<>> => stdout[1].k # "sep"

\* ------------------------------------------------------------------- C34
\* Largest number of records that a failing standard output takes.
MaxRoom == 2

\* runs whose standard output fails after at most MaxRoom records: every
\* file of at most MaxLines - 2 lines with and without -A 1 and -B 1, and
\* two files scanned by two workers, besides the runs of Init
WriteInit ==
  \/ Init
  \/ \E c \in LineFiles(MaxLines - 2), room \in 0..MaxRoom, n \in {-1, 1} :
       InitWith([OneWorker EXCEPT !.stdout_room = room, !.out_before = n,
                                  !.out_after = n],
                <<RegFile(c)>>)
  \/ \E room \in 0..MaxRoom :
       InitWith([Two EXCEPT !.stdout_room = room, !.out_after = 1],
                <<RegFile(TextC), RegFile(TextD)>>)

WriteSpec == WriteInit /\ [][Next]_vars

\* the thread whose step this is releases output_lock once
Unlocks(t) == pc'[t] # pc[t] /\ out_depth' = out_depth - 1

\* C34: a thread that holds the output lock and starts a diagnostic
\* (ts_error) can take the lock again; the lock has one owner or none, and
\* none exactly when its depth is 0; and every unlock_output is a step of
\* the owner at a depth above 0.
C34_RecursiveLock ==
  /\ [](/\ out_depth >= 0
        /\ out_owner \in Threads \cup {NoThread}
        /\ out_owner = NoThread <=> out_depth = 0
        /\ \A t \in Threads :
             pc[t] = "ts_error" /\ out_owner = t => CanLockOutput(t))
  /\ [][out_depth' < out_depth =>
          out_depth > 0 /\ out_owner \in Threads /\ Unlocks(out_owner)]_vars

\* a worker that holds the output lock in prtext or prpending has taken it
\* again for the diagnostic of a write error
C34_Witness ==
  /\ out_depth = 2
  /\ \E w \in Workers :
       out_owner = w /\ pc[w] = "ts_error_msg" /\ ret[w] = "exit"

\* ------------------------------------------------------------------- C35
\* thread t holds output_lock before or after the step (a step that takes
\* the lock and writes, or writes and releases it, is one action)
HoldsDuring(t) == out_owner = t \/ out_owner' = t

\* C35: every step that writes to standard output (a line, a separator or
\* a summary, and with it stdout_errno when the write fails) is taken by
\* the thread named in the record while it holds the output lock, and so
\* is the step of prtext that sets used.
C35_WritesUnderLock ==
  [][/\ stdout' # stdout =>
          /\ Len(stdout') > Len(stdout)
          /\ \A i \in (Len(stdout) + 1)..Len(stdout') :
               stdout'[i].th \in Workers /\ HoldsDuring(stdout'[i].th)
     /\ used' # used =>
          \E w \in Workers :
            pc[w] = "prtext_unlock" /\ pc'[w] # pc[w] /\ out_owner = w]_vars

\* a worker has made the write that failed, holding the output lock, while
\* the other worker is at the lock_output of its prtext
C35_Witness ==
  /\ stdout # <<>> /\ stdout_errno
  /\ ~WriteFailed(Len(stdout) - 1)
  /\ out_owner = stdout[Len(stdout)].th
  /\ \E v \in Workers : v # out_owner /\ pc[v] = "prtext"

\* ------------------------------------------------------------------- C36
\* one worker scans a file, then a file that ends its scan in another way
\* (NUL bytes, an encoding error, a without-match abandon, a long line, a
\* read error), then the first file again; with and without -A 1 -B 1,
\* with -n and -b; besides the runs of Init
AgainInit ==
  \/ Init
  \/ \E c \in Bytes(MaxBytes - 1, {"m", "n", "z"}),
        d \in {<<RegFile(TextE), "binary">>, <<RegFile(TextG), "binary">>,
               <<RegFile(TextF), "without-match">>,
               <<RegFile(TextG), "without-match">>,
               <<RegFile(<<"x", "x", "x", "x", "x", "m", "n">>), "binary">>,
               <<[RegFile(TextD) EXCEPT !.failat = 2], "binary">>},
        n \in {-1, 1} :
       InitWith([OneWorker EXCEPT !.binary_files = d[2], !.out_before = n,
                                  !.out_after = n, !.out_line = TRUE,
                                  !.out_byte = TRUE],
                <<RegFile(c), d[1], RegFile(c)>>)

AgainSpec == AgainInit /\ [][Next]_vars

\* arguments a and b, scanned by one worker, have the same content and
\* the scans of both are over
ScannedAgain(a, b) ==
  /\ a < b /\ args[a] = args[b]
  /\ \E w \in Workers : {a, b} \subseteq ProcessedBy(w)
  /\ ErrorFree(a) /\ ErrorFree(b)

\* the context of worker w when grep is called, and after grep has
\* initialised it
StartsClean(w) ==
  /\ pc[w] = "grep" =>
       /\ ctx[w].out_quiet = opt.out_quiet
       /\ ctx[w].done_on_match = opt.done_on_match
  /\ pc[w] = "grep" /\ pc'[w] # "grep" =>
       /\ ctx'[w].outleft = opt.max_count /\ ctx'[w].pending = 0
       /\ ctx'[w].lastout = NULL
       /\ ctx'[w].totalcc = 0 /\ ctx'[w].totalnl = 0
       /\ ~ctx'[w].encoding_error_output

\* C36 as stated: every file starts with a clean context, so that what is
\* written for a file and its count do not depend on the files that the
\* worker scanned before it.
C36_Original ==
  /\ [][\A w \in Workers : StartsClean(w)]_vars
  /\ [](\A a, b \in 1..Len(args) :
          ScannedAgain(a, b) =>
            LinesOf(a) = LinesOf(b) /\ counts[a] = counts[b])

\* C36: every file starts with a clean context, on every exit path of the
\* scan before it; and for a file without NUL bytes and encoding errors
\* the lines written, with their line numbers and byte offsets, and the
\* count are the same whichever files the worker scanned before it.
C36_FilesIndependent ==
  /\ [][\A w \in Workers : StartsClean(w)]_vars
  /\ [](\A a, b \in 1..Len(args) :
          ScannedAgain(a, b) /\ IsText(args[a].content) =>
            /\ Emitted(b) = [i \in 1..Len(Emitted(a)) |->
                               [Emitted(a)[i] EXCEPT !.f = b]]
            /\ counts[a] = counts[b])

\* -A 1 -B 1 -n -b: after a file with an encoding error in its selected
\* line, the same context line and selected line are written as before it
C36_Witness ==
  /\ Len(args) = 3 /\ args[2].content = TextG
  /\ ScannedAgain(1, 3) /\ counts[2] = 1 /\ counts[3] = 1
  /\ LinesOf(1) = <<<<"ctx", 0>>, <<"sel", 1>>>>
  /\ LinesOf(3) = LinesOf(1)
  /\ Emitted(3)[2].ln = 2 /\ Emitted(3)[2].bo = 1

\* ------------------------------------------------------------------- C37
\* C37: the exit of the process is started by at most one thread: no two
\* threads are ever both inside a call of exit, be it two workers that each
\* found a match under -q or a worker and the main thread that returns.
C37_OneExit == \A t, u \in Threads : InExit(t) /\ InExit(u) => t = u

\* ------------------------------------------------------------------- C38
\* a file whose only line needs a larger buffer than the initial one
LongLine == <<"x", "x", "x", "x", "x", "m", "n">>

\* the options and file arguments of a run that scans a content twice: read
\* from a pipe in reads of any sizes by a worker that has the initial
\* buffer, and once more, after a file that made the buffer grow, in one
\* read that brings the whole file into the buffer
SplitRun(c, n, inv) ==
  InitWith([OneWorker EXCEPT !.out_before = n, !.out_after = n,
                             !.out_line = TRUE, !.out_byte = TRUE,
                             !.out_invert = inv],
           <<StdinPipe(c), RegFile(LongLine), RegFile(c)>>)

\* -n -b without context, with -A 0 -B 0 and with -A 1 -B 1 over every file
\* of at most MaxBytes bytes without NUL bytes and over files with an
\* encoding error, and with -v and context over the files of at most
\* MaxBytes - 1 bytes and some more, besides the runs of Init
SplitInit ==
  \/ Init
  \/ \E c \in Bytes(MaxBytes, {"m", "x", "n"})
               \cup {TextG, <<"m", "n", "e", "m", "n">>},
        n \in {-1, 0, 1} : SplitRun(c, n, FALSE)
  \/ \E c \in Bytes(MaxBytes - 1, {"m", "x", "n"})
               \cup {<<"n", "m", "n", "n">>, <<"e", "n", "n">>},
        n \in {0, 1} : SplitRun(c, n, TRUE)

SplitSpec == SplitInit /\ [][Next]_vars

\* what was written for argument a from its first line on: the selected and
\* context lines with their line numbers and byte offsets, the group
\* separators between them and the message about a binary file
OutputOf(a) ==
  LET o == SelectSeq(stdout, LAMBDA r : r.f = a /\ r.k \in {"sel", "ctx", "sep", "bin"})
      q == IF o # <<>> /\ o[1].k = "sep" THEN Tail(o) ELSE o
  IN [i \in 1..Len(q) |-> [q[i] EXCEPT !.f = 0, !.th = 0]]

\* arguments a and b have the same content, without NUL bytes, and grep has
\* returned for both without an error
SameInput(a, b) ==
  /\ a < b /\ args[a].content = args[b].content
  /\ \A i \in 1..Len(args[a].content) : args[a].content[i] # "z"
  /\ counts[a] # -1 /\ counts[b] # -1
  /\ ErrorFree(a) /\ ErrorFree(b)

\* C38 as stated: for an input without NUL bytes, what is written (selected
\* lines, context lines, separators, line numbers, byte offsets) and the
\* count are the same however the reads split the input over the buffer
\* refills, and the same as when the whole file is scanned in one buffer.
C38_Original ==
  \A a, b \in 1..Len(args) :
    SameInput(a, b) => OutputOf(a) = OutputOf(b) /\ counts[a] = counts[b]

\* C38: for an input without NUL bytes, what is written (selected lines,
\* context lines, separators, line numbers, byte offsets, the message about
\* a binary file) and whether the count is 0 are the same however the reads
\* split the input over the buffer refills, and the same as when the whole
\* file is scanned in one buffer; the count itself is the same when the
\* input has no encoding error either.
C38_SplitIndependent ==
  \A a, b \in 1..Len(args) :
    SameInput(a, b) =>
      /\ OutputOf(a) = OutputOf(b)
      /\ counts[a] > 0 <=> counts[b] > 0
      /\ IsText(args[a].content) => counts[a] = counts[b]

\* -v -A 0 -B 0 -n -b on the lines "", "m", "": the pipe was read in several
\* reads, the regular file is in the buffer as a whole, and for both the two
\* empty lines and the separator between them were written
C38_Witness ==
  /\ Len(args) = 3 /\ opt.out_invert /\ opt.out_before = 0
  /\ args[1].content = <<"n", "m", "n", "n">> /\ ~args[1].isreg
  /\ SameInput(1, 3)
  /\ counts[3] = 2
  /\ Len(OutputOf(3)) = 3
  /\ OutputOf(3)[2].k = "sep"
  /\ OutputOf(3)[3].ln = 3 /\ OutputOf(3)[3].bo = 3
  /\ \E w \in Workers :
       /\ wf[w] = 3
       /\ \E base \in 0..ctx[w].bufalloc :
            \A i \in 0..3 : /\ At(ctx[w].buffer, base + i) = args[3].content[i + 1]
                            /\ At(ctx[w].org, base + i) = i

\* ------------------------------------------------------------------- C39
\* worker w is in the scan of a file that met no error, and not inside a
\* call of fillbuf
BetweenFills(w) == InScan(w) /\ pc[w] # "fillbuf" /\ ErrorFree(wf[w])

\* the bytes of the input that worker w has consumed: the position of its
\* file after the reads so far
Consumed(w) == ctx[w].fpos

\* the end-of-line byte that grep has put after an incomplete last line
AppendedEol(w) == IF loc[w].gb_ret = "residue" THEN 1 ELSE 0

C40_SentinelBeforeBufbeg ==
  \A w \in Workers :
    InScan(w) => At(ctx[w].buffer, ctx[w].bufbeg - 1) = eolbyte

\* a refill has moved two or more saved bytes, and the byte before them is
\* the end-of-line byte that fillbuf has put there: no byte of the file
C40_Witness ==
  \E w \in Workers :
    /\ InScan(w) /\ pc[w] = "grep_loop" /\ ~loc[w].firsttime
    /\ loc[w].save >= 2
    /\ ctx[w].buflim - ctx[w].bufbeg > loc[w].save
    /\ At(ctx[w].org, ctx[w].bufbeg) > 0
    /\ At(ctx[w].org, ctx[w].bufbeg - 1) = -1
    /\ At(ctx[w].buffer, ctx[w].bufbeg - 1) = eolbyte

====
